---------------------------- MODULE Spec2Model ----------------------------
(***************************************************************************)
(* A model of the carrier data plane of paqet: the client's carrier pool   *)
(* with its health ticker and stream acquisition, the bidirectional        *)
(* stream-copy engine, and the in-band control protocol.                   *)
(***************************************************************************)
EXTENDS Integers, Sequences, FiniteSets, TLC

(***************************************************************************)
(* Bounds of the model.                                                    *)
(***************************************************************************)
\* Transport.Conn: the configured pool length (1..256 in the program).
TransportConn == 2
\* The number of goroutines that call newStrm.
NumCallers == 1
\* How many times a slot factory may succeed during a run.
MaxReconnects == 2
\* The failure counters are tracked exactly up to this value.
FailsCap == 5
\* The length of the long host names among the sample addresses.
LongHostLen == 506
\* The length of the long flag lists among the sample frames.
LongListLen == 64
\* The number of goroutines that call shouldSendFake.
NumSenders == 2
\* How many calls of shouldSendFake each of them makes.
MaxCalls == 2
\* How many connections the server's listener accepts during a run.
MaxSessions == 2
\* How many times the process starts, each start calling Enforce once.
MaxStarts == 2
\* How many chunks a copy goroutine writes to the tunnel stream.
MaxChunks == 2
\* The number of goroutines that call newStrm on a pool nobody repairs.
NumDispatchers == 2

(***************************************************************************)
(* Program constants.                                                      *)
(***************************************************************************)
maxHealthCheckFailures == 4
maxHealthCheckFailuresSweep30 == 3
maxHealthCheckFailuresRoundRobin == 3
maxRetries == 3

\* tc.conn == nil
None == 0

\* The three tickers of the repository: the 15 s full sweep, the 30 s full
\* sweep and the 6 s one-slot-per-tick round robin.
Variants == {"sweep15", "sweep30", "roundrobin"}

VARIABLES
  variant,    \* which ticker runs
  Items,      \* c.iter.Items: the pool, a sequence of [conn, fails]
  closed,     \* sessions on which Close() has been called
  created,    \* number of sessions the slot factories have created so far
  ctxDone,    \* the client's context is cancelled
  tpc,        \* ticker: "wait" (select), "check", "reconnect", "exit"
  ti,         \* ticker: index of the slot being checked (1-based)
  idx,        \* ticker (round robin): idx modulo the pool length
  picked,     \* history (round robin): the slots of the last ticks, oldest first
  streak,     \* history: consecutive ping failures per slot
  ev,         \* history: what the ticker's last step did
  iterIndex,  \* c.iter: the round-robin counter of Next(), modulo the pool length
  call,       \* the newStrm calls in progress, one record per caller
  handler,    \* stream-copy: "handleTCP", "handleUDP" or "handleTCPConn"
  hpc,        \* stream-copy: where the handler is
  herr,       \* stream-copy: the handler's err variable
  hret,       \* stream-copy: what the handler returned
  parentDone, \* stream-copy: the parent context ctx is cancelled
  copyDone,   \* stream-copy: copyCtx is cancelled
  connClosed, \* stream-copy: Close() was called on the socket
  strmClosed, \* stream-copy: Close() was called on the tunnel stream
  errChan,    \* stream-copy: the buffered result channel
  drained,    \* stream-copy: the drain loop's i
  task,       \* stream-copy: the two copy goroutines
  strmOut,    \* stream-copy: what this end has written to the tunnel stream
  ppc,        \* protocol: "frame" (to be written), "wire" (written), "decoded"
  frame,      \* protocol: the Proto value given to Write
  wire,       \* protocol: the bytes on the stream
  werr,       \* protocol: what Write returned
  cut,        \* protocol: the stream ended before the whole frame arrived
  decoded,    \* protocol: what Read returned and the Proto it filled
  tfpc,       \* flag word: "flags" (to encode), "word" (to decode), "done"
  tcpfIn,     \* flag word: the conf.TCPF given to encodeTCPF
  flagWord,   \* flag word: the uint16 on the wire
  tcpfOut,    \* flag word: what decodeTCPF returned
  padpc,      \* padding: "payload", "padded", "raw", "datagram" (received), "done"
  payload,    \* padding: the payload given to WrapPadding
  padMax,     \* padding: cfg.PadMax
  datagram,   \* padding: the bytes given to UnwrapPadding
  unwrapped,  \* padding: what UnwrapPadding returned
  rpc,        \* receive: "capture" (a frame is due), "returned"
  layout,     \* receive: how the captured frame was laid out
  captured,   \* receive: what ReadPacketData returns, [err, data]
  ipv4Buf,    \* receive: h.ipv4Buf
  ipv6Buf,    \* receive: h.ipv6Buf
  rret,       \* receive: what RecvHandle.Read returned
  dpiCfg,     \* fake cutoff: d.cfg, [FakeEnabled, FakeCutoff]
  packetCount,\* fake cutoff: d.packetCount, key -> counter
  counters,   \* fake cutoff: the atomic.Int64 objects allocated so far
  sender,     \* fake cutoff: the goroutines calling shouldSendFake
  fakeLog,    \* fake cutoff, history: per destination, the results in Add order
  spc,        \* server: where Server.Start (or the forwarder's listenTCP) is
  sret,       \* server: what Server.Start returned
  sig,        \* server: the signal channel: "none", "pending", "received"
  rootDone,   \* server: the root context is cancelled
  listenerClosed, \* server: Close() was called on the listener
  lpc,        \* server: where the accept loop (Server.listen, listenTCP) is
  closerpc,   \* server: the goroutine that closes the listener on ctx.Done()
  session,    \* server: the session goroutines spawned by the accept loop
  wg,         \* server: the counter of s.wg
  kpc,        \* transport profile: "conf" (to apply), "applied"
  kcfg,       \* transport profile: the conf.KCP given to aplConf
  applied,    \* transport profile: the arguments of conn.SetNoDelay etc.
  epc,        \* license: where Enforce is
  licCfg,     \* license: cfg.License, [URL, Key, ServerID]
  cacheFile,  \* license: the content of the cache file
  cacheBefore,\* license, history: the cache file when Enforce was called
  posts,      \* license, history: activation requests sent by this call
  answer,     \* license, history: what the activation server answered
  eret,       \* license: what Enforce returned
  starts      \* license: how many times the process has started

tickerVars == <<variant, Items, closed, created, ctxDone, tpc, ti, idx, picked, streak, ev>>

callerVars == <<iterIndex, call>>

copyVars == <<handler, hpc, herr, hret, parentDone, copyDone, connClosed,
              strmClosed, errChan, drained, task, strmOut>>

protoVars == <<ppc, frame, wire, werr, cut, decoded>>

tcpfVars == <<tfpc, tcpfIn, flagWord, tcpfOut>>

padVars == <<padpc, payload, padMax, datagram, unwrapped>>

recvVars == <<rpc, layout, captured, ipv4Buf, ipv6Buf, rret>>

fakeVars == <<dpiCfg, packetCount, counters, sender, fakeLog>>

serverVars == <<spc, sret, sig, rootDone, listenerClosed, lpc, closerpc, session, wg>>

kcpVars == <<kpc, kcfg, applied>>

licVars == <<epc, licCfg, cacheFile, cacheBefore, posts, answer, eret, starts>>

\* The packet path and the server: what the client, the stream-copy engine
\* and the control protocol never touch.
socketVars == <<tcpfVars, padVars, recvVars, fakeVars, serverVars, kcpVars, licVars>>

\* What each subsystem's actions leave alone.
outsideClient == <<copyVars, protoVars, socketVars>>

outsideCopy == <<tickerVars, callerVars, protoVars, socketVars>>

outsideProto == <<tickerVars, callerVars, copyVars, socketVars>>

tunnelVars == <<tickerVars, callerVars, copyVars, protoVars>>

outsideTCPF == <<tunnelVars, padVars, recvVars, fakeVars, serverVars, kcpVars, licVars>>

outsidePad == <<tunnelVars, tcpfVars, recvVars, fakeVars, serverVars, kcpVars, licVars>>

outsideRecv == <<tunnelVars, tcpfVars, padVars, fakeVars, serverVars, kcpVars, licVars>>

outsideFake == <<tunnelVars, tcpfVars, padVars, recvVars, serverVars, kcpVars, licVars>>

outsideServer == <<tunnelVars, tcpfVars, padVars, recvVars, fakeVars, kcpVars, licVars>>

outsideKcp == <<tunnelVars, tcpfVars, padVars, recvVars, fakeVars, serverVars, licVars>>

outsideLic == <<tunnelVars, tcpfVars, padVars, recvVars, fakeVars, serverVars, kcpVars>>

vars == <<tunnelVars, socketVars>>

Slots == 1..TransportConn

Callers == 1..NumCallers

NoEvent == [kind |-> "none", slot |-> 0, conn |-> None, fails |-> 0, created |-> 0]

Event(k, i) ==
  [kind |-> k, slot |-> i, conn |-> Items[i].conn, fails |-> Items[i].fails,
   created |-> created]

Threshold(v) ==
  CASE v = "sweep15" -> maxHealthCheckFailures
    [] v = "sweep30" -> maxHealthCheckFailuresSweep30
    [] OTHER -> maxHealthCheckFailuresRoundRobin

\* A counter incremented by one, tracked exactly up to FailsCap.
Bump(n) == IF n < FailsCap THEN n + 1 ELSE n

(***************************************************************************)
(* The per-slot state changes of the ticker.                               *)
(***************************************************************************)
\* (mutant) the re-filled slot is appended instead of updated in place
SetSlot_Append(items, i, tc) == Append(items, tc)

\* tc is a pointer into c.iter.Items: its fields are updated in place.
SetSlot(items, i, tc) == [items EXCEPT ![i] = tc]

\* (mutant) the counter is not reset after a successful ping
OnPingOk_NoReset(tc) == tc

\* tc.fails = 0 after a successful ping
OnPingOk(tc) == [tc EXCEPT !.fails = 0]

\* tc.fails++ after a failed ping
OnPingFail(tc) == [tc EXCEPT !.fails = Bump(@)]

\* (mutant) the session is given up one failure early
BelowThreshold_OneEarly(tc, v) == tc.fails < Threshold(v) - 1

\* if tc.fails < maxHealthCheckFailures { continue }
BelowThreshold(tc, v) == tc.fails < Threshold(v)

\* (mutant) the new session is dropped, only the counter is reset
Install_DropsConn(tc, c) == [tc EXCEPT !.fails = 0]

\* tc.conn = newConn; tc.fails = 0
Install(tc, c) == [tc EXCEPT !.conn = c, !.fails = 0]

\* (mutant) a failed createConn clears the counter
KeepSlot_ClearsFails(tc) == [tc EXCEPT !.fails = 0]

\* a failed createConn: continue, the slot is left as it is
KeepSlot(tc) == tc

\* The identity of the next session a factory creates.
FreshConn == TransportConn + created + 1

(***************************************************************************)
(* Stream acquisition: newConn and newStrm.                                *)
(***************************************************************************)
\* A caller that is not inside newStrm.  attempt and lastErr are newStrm's
\* locals, conn is the session newConn returned; tries, failed, nexts, slot
\* and lastTry are history: attempts started, attempts failed, calls of
\* Next(), the slot of the last attempt and the error of the last attempt.
IdleCall ==
  [pc |-> "idle", attempt |-> 0, conn |-> None, lastErr |-> "nil",
   tries |-> 0, failed |-> 0, nexts |-> 0, slot |-> 0, lastTry |-> "nil",
   ret |-> "none", strm |-> None, wraps |-> "nil", mixed |-> FALSE]

\* c.iter.Next(): the counter is incremented atomically and selects a slot.
NextIndex(n, len) == (n + 1) % len

\* (mutant) newStrm gives up at the first failure
Continue_NoRetry(c, err) ==
  [c EXCEPT !.pc = "done", !.attempt = @ + 1, !.lastErr = err,
            !.failed = @ + 1, !.lastTry = err, !.ret = "error", !.wraps = err]

\* (mutant) newStrm gives up one attempt later
Continue_OneMore(c, err) ==
  IF c.attempt + 1 < maxRetries + 1
  THEN [c EXCEPT !.pc = "try", !.attempt = @ + 1, !.lastErr = err,
                 !.failed = @ + 1, !.lastTry = err]
  ELSE [c EXCEPT !.pc = "done", !.attempt = @ + 1, !.lastErr = err,
                 !.failed = @ + 1, !.lastTry = err,
                 !.ret = "error", !.wraps = err]

\* lastErr = err; continue: the loop goes on while attempt < maxRetries, and
\* after it newStrm returns an error that wraps lastErr.
Continue(c, err) ==
  IF c.attempt + 1 < maxRetries
  THEN [c EXCEPT !.pc = "try", !.attempt = @ + 1, !.lastErr = err,
                 !.failed = @ + 1, !.lastTry = err]
  ELSE [c EXCEPT !.pc = "done", !.attempt = @ + 1, !.lastErr = err,
                 !.failed = @ + 1, !.lastTry = err,
                 !.ret = "error", !.wraps = err]

\* return strm, nil
ReturnStrm(c) ==
  [c EXCEPT !.pc = "done", !.lastTry = "nil", !.ret = "strm", !.strm = c.conn]

(***************************************************************************)
(* The stream-copy engine: server handleTCP, handleUDP and the client      *)
(* forwarder's handleTCPConn.                                              *)
(***************************************************************************)
Handlers == {"handleTCP", "handleUDP", "handleTCPConn"}

\* The two copy goroutines: 1 copies the tunnel stream to the socket,
\* 2 the socket to the tunnel stream.
Tasks == {1, 2}

\* cap of make(chan error, 2)
ErrChanCap == 2

NotStarted == [pc |-> "none", err |-> "nil"]

\* No handler runs.
IdleCopy ==
  /\ handler = "none"
  /\ hpc = "none"
  /\ herr = "nil"
  /\ hret = "none"
  /\ parentDone = FALSE
  /\ copyDone = FALSE
  /\ connClosed = FALSE
  /\ strmClosed = FALSE
  /\ errChan = <<>>
  /\ drained = 0
  /\ task = [t \in Tasks |-> NotStarted]
  /\ strmOut = <<>>

\* No client runs.
IdleClient ==
  /\ variant = "none"
  /\ Items = <<>>
  /\ closed = {}
  /\ created = 0
  /\ ctxDone = FALSE
  /\ tpc = "none"
  /\ ti = 0
  /\ idx = 0
  /\ picked = <<>>
  /\ streak = <<>>
  /\ ev = NoEvent
  /\ iterIndex = 0
  /\ call = <<>>

(***************************************************************************)
(* The control protocol: Proto.Write and Proto.Read.                       *)
(***************************************************************************)
PPING == 1
PPONG == 2
PTCPF == 3
PTCP == 4
PUDP == 5

\* if addrLen > 512
MaxAddrLen == 512
\* if count > 64
MaxTCPFCount == 64

\* p.Addr == nil
NoAddr == [host |-> <<>>, port |-> -1]

NoProto == [err |-> "none", Type |-> 0, Addr |-> NoAddr, TCPF |-> <<>>]

\* No frame is being written or read.
IdleProto ==
  /\ ppc = "none"
  /\ frame = NoProto
  /\ wire = <<>>
  /\ werr = "none"
  /\ cut = FALSE
  /\ decoded = NoProto

Range(q) == {q[i] : i \in DOMAIN q}

Colon == 58

\* strconv.Itoa for a port
RECURSIVE Itoa(_)
Itoa(n) == IF n < 10 THEN <<48 + n>> ELSE Itoa(n \div 10) \o <<48 + (n % 10)>>

\* strconv.Atoi for a string of decimal digits
RECURSIVE Atoi(_)
Atoi(q) ==
  IF Len(q) = 0 THEN 0
  ELSE 10 * Atoi(SubSeq(q, 1, Len(q) - 1)) + (q[Len(q)] - 48)

IsDigits(q) == Len(q) > 0 /\ \A i \in DOMAIN q : q[i] \in 48..57

\* Addr.String(): host:port, a host that holds a colon in brackets.
AddrString(a) ==
  IF Colon \in Range(a.host)
  THEN <<91>> \o a.host \o <<93, Colon>> \o Itoa(a.port)
  ELSE a.host \o <<Colon>> \o Itoa(a.port)

\* tnet.NewAddr(s): split at the last colon, strip the brackets of the
\* host, parse the port; [err, addr].
NewAddr(q) ==
  LET colons == {i \in DOMAIN q : q[i] = Colon} IN
  IF colons = {} THEN [err |-> "missing port", addr |-> NoAddr]
  ELSE
    LET k == CHOOSE i \in colons : \A j \in colons : j <= i
        h == SubSeq(q, 1, k - 1)
        ps == SubSeq(q, k + 1, Len(q))
        bracketed == Len(h) >= 2 /\ h[1] = 91 /\ h[Len(h)] = 93
        host == IF bracketed THEN SubSeq(h, 2, Len(h) - 1) ELSE h
    IN IF ~bracketed /\ Colon \in Range(h)
       THEN [err |-> "too many colons", addr |-> NoAddr]
       ELSE IF Len(host) = 0 \/ ~IsDigits(ps) \/ Atoi(ps) > 65535
       THEN [err |-> "invalid address", addr |-> NoAddr]
       ELSE [err |-> "nil", addr |-> [host |-> host, port |-> Atoi(ps)]]

\* flags&(1<<k) != 0
Bit(x, k) == (x \div (2 ^ k)) % 2 = 1

FlagBit(b, k) == IF b THEN 2 ^ k ELSE 0

\* encodeTCPF: the nine flags at bit positions 0..8
encodeTCPF(f) ==
  FlagBit(f.FIN, 0) + FlagBit(f.SYN, 1) + FlagBit(f.RST, 2) + FlagBit(f.PSH, 3)
    + FlagBit(f.ACK, 4) + FlagBit(f.URG, 5) + FlagBit(f.ECE, 6)
    + FlagBit(f.CWR, 7) + FlagBit(f.NS, 8)

\* (mutant) the NS flag is read one bit too high
decodeTCPF_NSBit9(x) ==
  [FIN |-> Bit(x, 0), SYN |-> Bit(x, 1), RST |-> Bit(x, 2), PSH |-> Bit(x, 3),
   ACK |-> Bit(x, 4), URG |-> Bit(x, 5), ECE |-> Bit(x, 6), CWR |-> Bit(x, 7),
   NS |-> Bit(x, 9)]

\* decodeTCPF
decodeTCPF(x) ==
  [FIN |-> Bit(x, 0), SYN |-> Bit(x, 1), RST |-> Bit(x, 2), PSH |-> Bit(x, 3),
   ACK |-> Bit(x, 4), URG |-> Bit(x, 5), ECE |-> Bit(x, 6), CWR |-> Bit(x, 7),
   NS |-> Bit(x, 8)]

\* (mutant) the length is written low byte first
PutUint16_LittleEndian(v) == <<v % 256, (v \div 256) % 256>>

\* binary.BigEndian.PutUint16 of a uint16
PutUint16(v) == <<(v \div 256) % 256, v % 256>>

\* binary.BigEndian.Uint16
Uint16(hi, lo) == hi * 256 + lo

\* uint16(len(addrStr))
ToUint16(n) == n % 65536

\* byte(count)
ToByte(n) == n % 256

\* The flag entries of a PTCPF frame, two bytes each: byte k belongs to
\* entry (k + 1) \div 2.
FlagBytes(fs) ==
  [k \in 1..(2 * Len(fs)) |->
     PutUint16(encodeTCPF(fs[(k + 1) \div 2]))[2 - (k % 2)]]

\* Proto.Write: [err, out], out the bytes written to w.
Write(p) ==
  IF p.Type \in {PTCP, PUDP}
  THEN IF p.Addr = NoAddr
       THEN [err |-> "address is required", out |-> <<p.Type>>]
       ELSE LET addrStr == AddrString(p.Addr) IN
            [err |-> "nil",
             out |-> <<p.Type>> \o PutUint16(ToUint16(Len(addrStr))) \o addrStr]
  ELSE IF p.Type = PTCPF
  THEN [err |-> "nil",
        out |-> <<p.Type, ToByte(Len(p.TCPF))>> \o FlagBytes(p.TCPF)]
  ELSE [err |-> "nil", out |-> <<p.Type>>]

\* (mutant) the address length is not bounded
AddrTooLong_Never(n) == FALSE

\* if addrLen > 512
AddrTooLong(n) == n > MaxAddrLen

\* (mutant) the flag count is not bounded
TooManyTCPF_Never(n) == FALSE

\* if count > 64
TooManyTCPF(n) == n > MaxTCPFCount

ReadError(e, t) == [err |-> e, Type |-> t, Addr |-> NoAddr, TCPF |-> <<>>]

\* Proto.Read of a stream that holds the bytes b and then ends: io.ReadFull
\* fails when fewer bytes are left than it was asked for.
Read(b) ==
  IF Len(b) < 1 THEN ReadError("EOF", 0)
  ELSE
    LET t == b[1] IN
    IF t \in {PTCP, PUDP}
    THEN IF Len(b) < 3 THEN ReadError("EOF", t)
         ELSE LET addrLen == Uint16(b[2], b[3]) IN
              IF AddrTooLong(addrLen) THEN ReadError("address too long", t)
              ELSE IF Len(b) < 3 + addrLen THEN ReadError("EOF", t)
              ELSE LET r == NewAddr(SubSeq(b, 4, 3 + addrLen)) IN
                   IF r.err # "nil" THEN ReadError(r.err, t)
                   ELSE [err |-> "nil", Type |-> t, Addr |-> r.addr, TCPF |-> <<>>]
    ELSE IF t = PTCPF
    THEN IF Len(b) < 2 THEN ReadError("EOF", t)
         ELSE LET count == b[2] IN
              IF TooManyTCPF(count) THEN ReadError("too many TCPF entries", t)
              ELSE IF Len(b) < 2 + 2 * count THEN ReadError("EOF", t)
              ELSE [err |-> "nil", Type |-> t, Addr |-> NoAddr,
                    TCPF |-> [i \in 1..count |->
                                decodeTCPF(Uint16(b[1 + 2 * i], b[2 + 2 * i]))]]
    ELSE IF t \in {PPING, PPONG}
    THEN [err |-> "nil", Type |-> t, Addr |-> NoAddr, TCPF |-> <<>>]
    ELSE ReadError("unknown protocol type", t)

(***************************************************************************)
(* Payload padding: WrapPadding and UnwrapPadding.                         *)
(***************************************************************************)
\* The largest value of a uint16.
MaxUint16 == 65535

\* PadMax: the largest value validate accepts, and the default.
MaxPadMax == 512
DefaultPadMax == 64

\* cryptoRandIntn(n), with rnd the two random bytes read big-endian
cryptoRandIntn(n, rnd) == IF n <= 0 THEN 0 ELSE rnd % n

\* (mutant) the prefix counts the padding too
LengthPrefix_Total(origLen, padLen) == PutUint16(ToUint16(origLen + padLen))

\* binary.BigEndian.PutUint16(result[0:2], uint16(origLen))
LengthPrefix(origLen, padLen) == PutUint16(ToUint16(origLen))

\* WrapPadding(payload, padMax): rnd is what cryptoRandIntn drew and fill
\* what rand.Read wrote into the padding.
WrapPadding(p, m, rnd, fill) ==
  LET origLen == Len(p)
      padLen == cryptoRandIntn(m + 1, rnd)
  IN  LengthPrefix(origLen, padLen) \o p \o [i \in 1..padLen |-> fill]

\* data[lo:hi] of a Go slice: out of range panics.
Slice(data, lo, hi) ==
  IF lo > hi \/ hi > Len(data)
  THEN [kind |-> "panic", data |-> <<>>]
  ELSE [kind |-> "data", data |-> SubSeq(data, lo + 1, hi)]

\* (mutant) the check forgets the two prefix bytes
DeclaredTooLong_NoPrefix(origLen, n) == origLen > n \/ origLen < 0

\* origLen > len(data)-2 || origLen < 0
DeclaredTooLong(origLen, n) == origLen > n - 2 \/ origLen < 0

NilSlice == [kind |-> "nil", data |-> <<>>]

\* (mutant) a datagram without a valid prefix is taken for an unpadded one
\* and handed on as it came
UnwrapPadding_PassThrough(data) ==
  IF Len(data) < 2 \/ DeclaredTooLong(Uint16(data[1], data[2]), Len(data))
  THEN [kind |-> "data", data |-> data]
  ELSE Slice(data, 2, 2 + Uint16(data[1], data[2]))

\* UnwrapPadding(data)
UnwrapPadding(data) ==
  IF Len(data) < 2
  THEN NilSlice
  ELSE LET origLen == Uint16(data[1], data[2]) IN
         IF DeclaredTooLong(origLen, Len(data))
         THEN NilSlice
         ELSE Slice(data, 2, 2 + origLen)


(***************************************************************************)
(* The receive path: RecvHandle.Read parses a captured frame.              *)
(***************************************************************************)
\* EtherTypes, as the two bytes read big-endian.
EtherTypeVLAN == 33024
EtherTypeIPv4 == 2048
EtherTypeIPv6 == 34525

\* Header lengths in bytes.
EthernetHeaderLen == 14
VLANHeaderLen == 18
MinIPv4HeaderLen == 20
IPv6HeaderLen == 40
MinTCPHeaderLen == 20

\* data[i] of a Go slice (indices from 0)
At(data, i) == data[i + 1]

\* data[lo:hi] where the code has checked the range
Bytes(data, lo, hi) == SubSeq(data, lo + 1, hi)

\* The nil net.Addr.
NilAddr == [IP |-> "nil", Port |-> 0]

\* (mutant) malformed frames are reported as errors
NoData_Error == [data |-> NilSlice, addr |-> NilAddr, err |-> "malformed"]

\* return nil, nil, nil
NoData == [data |-> NilSlice, addr |-> NilAddr, err |-> "nil"]

\* An index or slice expression of Read reaching up to data[hi-1] on a frame
\* shorter than hi: the Go runtime's bounds check fails.
OutOfRange(data, hi) == hi > Len(data)

\* The goroutine panics with "index out of range" and Read does not return
\* to its caller.
Panic == [data |-> NilSlice, addr |-> NilAddr, err |-> "panic"]

\* (mutant) the 20 bytes of the TCP header are not checked for
NoRoomForTCP_Never(n, tcpStart) == FALSE

\* len(data) < tcpStart+20
NoRoomForTCP(n, tcpStart) == n < tcpStart + MinTCPHeaderLen

\* (mutant) the TCP data offset is not checked
ShortTCPHeader_Never(n) == FALSE

\* tcpHeaderLen < 20
ShortTCPHeader(n) == n < MinTCPHeaderLen

\* RecvHandle.Read from the TCP header on: addr.IP is already set to buf.
ReadTCP(data, tcpStart, buf) ==
  IF NoRoomForTCP(Len(data), tcpStart)
  THEN NoData
  ELSE IF OutOfRange(data, tcpStart + 2) \/ OutOfRange(data, tcpStart + 13)
  THEN Panic
  ELSE LET port == Uint16(At(data, tcpStart), At(data, tcpStart + 1))
           tcpHeaderLen == (At(data, tcpStart + 12) \div 16) * 4
           payloadStart == tcpStart + tcpHeaderLen
       IN  IF ShortTCPHeader(tcpHeaderLen) \/ Len(data) < tcpStart + tcpHeaderLen
           THEN NoData
           ELSE IF payloadStart >= Len(data)
           THEN NoData
           ELSE IF OutOfRange(data, payloadStart)
           THEN Panic
           ELSE [data |-> [kind |-> "data", data |-> Bytes(data, payloadStart, Len(data))],
                 addr |-> [IP |-> buf, Port |-> port],
                 err |-> "nil"]

\* RecvHandle.Read from the IP header on. The result carries the two
\* preallocated buffers as Read leaves them.
ReadIP(data, etherType, offset, v4, v6) ==
  IF etherType = EtherTypeIPv4
  THEN IF Len(data) < offset + MinIPv4HeaderLen
       THEN [ret |-> NoData, ipv4Buf |-> v4, ipv6Buf |-> v6]
       ELSE IF OutOfRange(data, offset + 1)
       THEN [ret |-> Panic, ipv4Buf |-> v4, ipv6Buf |-> v6]
       ELSE LET ipHeaderLen == (At(data, offset) % 16) * 4 IN
              IF ipHeaderLen < MinIPv4HeaderLen \/ Len(data) < offset + ipHeaderLen
              THEN [ret |-> NoData, ipv4Buf |-> v4, ipv6Buf |-> v6]
              ELSE IF OutOfRange(data, offset + 16)
              THEN [ret |-> Panic, ipv4Buf |-> v4, ipv6Buf |-> v6]
              ELSE [ret |-> ReadTCP(data, offset + ipHeaderLen, "ipv4Buf"),
                    ipv4Buf |-> Bytes(data, offset + 12, offset + 16),
                    ipv6Buf |-> v6]
  ELSE IF etherType = EtherTypeIPv6
  THEN IF Len(data) < offset + IPv6HeaderLen
       THEN [ret |-> NoData, ipv4Buf |-> v4, ipv6Buf |-> v6]
       ELSE IF OutOfRange(data, offset + 24)
       THEN [ret |-> Panic, ipv4Buf |-> v4, ipv6Buf |-> v6]
       ELSE [ret |-> ReadTCP(data, offset + IPv6HeaderLen, "ipv6Buf"),
             ipv4Buf |-> v4,
             ipv6Buf |-> Bytes(data, offset + 8, offset + 24)]
  ELSE [ret |-> NoData, ipv4Buf |-> v4, ipv6Buf |-> v6]

\* RecvHandle.Read, given what h.handle.ReadPacketData() returned.
RecvRead(cap, v4, v6) ==
  LET data == cap.data IN
  IF cap.err # "nil"
  THEN [ret |-> [data |-> NilSlice, addr |-> NilAddr, err |-> cap.err],
        ipv4Buf |-> v4, ipv6Buf |-> v6]
  ELSE IF Len(data) < EthernetHeaderLen
  THEN [ret |-> NoData, ipv4Buf |-> v4, ipv6Buf |-> v6]
  ELSE IF OutOfRange(data, 14)
  THEN [ret |-> Panic, ipv4Buf |-> v4, ipv6Buf |-> v6]
  ELSE LET etherType == Uint16(At(data, 12), At(data, 13)) IN
         IF etherType = EtherTypeVLAN
         THEN IF Len(data) < VLANHeaderLen
              THEN [ret |-> NoData, ipv4Buf |-> v4, ipv6Buf |-> v6]
              ELSE IF OutOfRange(data, 18)
              THEN [ret |-> Panic, ipv4Buf |-> v4, ipv6Buf |-> v6]
              ELSE ReadIP(data, Uint16(At(data, 16), At(data, 17)), VLANHeaderLen, v4, v6)
         ELSE ReadIP(data, etherType, EthernetHeaderLen, v4, v6)


(***************************************************************************)
(* The packet path and the server at rest.                                 *)
(***************************************************************************)
\* No flag word is being encoded or decoded.
IdleTCPF ==
  /\ tfpc = "none"
  /\ tcpfIn = <<>>
  /\ flagWord = 0
  /\ tcpfOut = <<>>

\* No payload is being padded.
IdlePad ==
  /\ padpc = "none"
  /\ payload = <<>>
  /\ padMax = 0
  /\ datagram = <<>>
  /\ unwrapped = <<>>

\* No frame is being received.
IdleRecv ==
  /\ rpc = "none"
  /\ layout = <<>>
  /\ captured = <<>>
  /\ ipv4Buf = <<>>
  /\ ipv6Buf = <<>>
  /\ rret = <<>>

\* No sender asks for decoys.
IdleFake ==
  /\ dpiCfg = <<>>
  /\ packetCount = <<>>
  /\ counters = <<>>
  /\ sender = <<>>
  /\ fakeLog = <<>>

\* No server runs.
IdleServer ==
  /\ spc = "none"
  /\ sret = "none"
  /\ sig = "none"
  /\ rootDone = FALSE
  /\ listenerClosed = FALSE
  /\ lpc = "none"
  /\ closerpc = "none"
  /\ session = <<>>
  /\ wg = 0

\* No transport profile is being applied.
IdleKcp ==
  /\ kpc = "none"
  /\ kcfg = <<>>
  /\ applied = <<>>

\* No license is being enforced.
IdleLic ==
  /\ epc = "none"
  /\ licCfg = <<>>
  /\ cacheFile = <<>>
  /\ cacheBefore = <<>>
  /\ posts = 0
  /\ answer = <<>>
  /\ eret = "none"
  /\ starts = 0

IdleSocket ==
  /\ IdleTCPF
  /\ IdlePad
  /\ IdleRecv
  /\ IdleFake
  /\ IdleServer
  /\ IdleKcp
  /\ IdleLic

\* Nothing of the tunnel runs: no client, no handler, no frame.
IdleTunnel ==
  /\ IdleClient
  /\ IdleCopy
  /\ IdleProto

(***************************************************************************)
(* Initial state: the pool has Transport.Conn slots, each empty or holding *)
(* its first session; the ticker waits for its first tick.                 *)
(***************************************************************************)
InitPool ==
  /\ variant \in Variants
  /\ Items \in [Slots -> {[conn |-> None, fails |-> 0]}
                           \cup {[conn |-> c, fails |-> 0] : c \in Slots}]
  /\ \A i \in Slots : Items[i].conn \in {None, i}
  /\ closed = {}
  /\ created = 0
  /\ ctxDone = FALSE
  /\ tpc = "wait"
  /\ ti = 0
  /\ idx = 0
  /\ picked = <<>>
  /\ streak = [i \in Slots |-> 0]
  /\ ev = NoEvent
  /\ iterIndex = 0
  /\ call = [p \in Callers |-> IdleCall]
  /\ IdleCopy
  /\ IdleProto
  /\ IdleSocket

(***************************************************************************)
(* The ticker.                                                             *)
(***************************************************************************)
\* After slot ti: the full sweeps go on to the next slot of the range loop,
\* the round robin goes back to the select.
Advance ==
  IF variant # "roundrobin" /\ ti < Len(Items)
  THEN /\ ti' = ti + 1
       /\ tpc' = "check"
  ELSE /\ ti' = 0
       /\ tpc' = "wait"

\* (mutant) idx is left as it is
NextIdx_Stuck(i, n) == i

\* idx++, kept modulo the pool length
NextIdx(i, n) == (i + 1) % n

\* The slots of the last n ticks, after slot i was selected.
LastPicks(q, i, n) ==
  IF Len(q) < n THEN Append(q, i) ELSE Append(Tail(q), i)

\* case <-timer.C
TimerFires ==
  /\ tpc = "wait"
  /\ Len(Items) > 0
  /\ IF variant = "roundrobin"
     THEN /\ ti' = (idx % Len(Items)) + 1
          /\ idx' = NextIdx(idx, Len(Items))
          /\ picked' = LastPicks(picked, ti', Len(Items))
     ELSE /\ ti' = 1
          /\ idx' = idx
          /\ picked' = picked
  /\ tpc' = "check"
  /\ ev' = NoEvent
  /\ UNCHANGED <<variant, Items, closed, created, ctxDone, streak, callerVars, outsideClient>>

\* if tc.conn == nil { continue }
SlotEmpty ==
  /\ tpc = "check"
  /\ Items[ti].conn = None
  /\ ev' = Event("skip", ti)
  /\ Advance
  /\ UNCHANGED <<variant, picked, Items, closed, created, ctxDone, idx, streak, callerVars, outsideClient>>

\* Ping returns nil: only a session that is not closed can answer.
PingSucceeds ==
  /\ tpc = "check"
  /\ Items[ti].conn # None
  /\ Items[ti].conn \notin closed
  /\ Items' = SetSlot(Items, ti, OnPingOk(Items[ti]))
  /\ streak' = [streak EXCEPT ![ti] = 0]
  /\ ev' = Event("pingOk", ti)
  /\ Advance
  /\ UNCHANGED <<variant, picked, closed, created, ctxDone, idx, callerVars, outsideClient>>

\* Ping returns an error: the counter goes up, and at the threshold the
\* session is closed and the ticker goes on to call the slot's factory.
PingFails ==
  /\ tpc = "check"
  /\ Items[ti].conn # None
  /\ LET tc == OnPingFail(Items[ti]) IN
       /\ Items' = SetSlot(Items, ti, tc)
       /\ streak' = [streak EXCEPT ![ti] = Bump(@)]
       /\ IF BelowThreshold(tc, variant)
          THEN /\ ev' = Event("pingFail", ti)
               /\ Advance
               /\ UNCHANGED closed
          ELSE /\ ev' = Event("close", ti)
               /\ closed' = closed \cup {Items[ti].conn}
               /\ tpc' = "reconnect"
               /\ ti' = ti
  /\ UNCHANGED <<variant, picked, created, ctxDone, idx, callerVars, outsideClient>>

\* tc.createConn() returns a new session: it is installed.
ReconnectSucceeds ==
  /\ tpc = "reconnect"
  /\ created < MaxReconnects
  /\ Items' = SetSlot(Items, ti, Install(Items[ti], FreshConn))
  /\ created' = created + 1
  /\ streak' = [streak EXCEPT ![ti] = 0]
  /\ ev' = Event("reconnectOk", ti)
  /\ Advance
  /\ UNCHANGED <<variant, picked, closed, ctxDone, idx, callerVars, outsideClient>>

\* tc.createConn() returns an error.
ReconnectFails ==
  /\ tpc = "reconnect"
  /\ Items' = SetSlot(Items, ti, KeepSlot(Items[ti]))
  /\ ev' = Event("reconnectFail", ti)
  /\ Advance
  /\ UNCHANGED <<variant, picked, closed, created, ctxDone, idx, streak, callerVars, outsideClient>>

\* case <-ctx.Done(): return
TickerExit ==
  /\ tpc = "wait"
  /\ ctxDone
  /\ tpc' = "exit"
  /\ ev' = NoEvent
  /\ UNCHANGED <<variant, picked, Items, closed, created, ctxDone, ti, idx, streak, callerVars, outsideClient>>

\* The client's context is cancelled (shutdown).
Cancel ==
  /\ ~ctxDone
  /\ ctxDone' = TRUE
  /\ UNCHANGED <<variant, picked, Items, closed, created, tpc, ti, idx, streak, ev, callerVars, outsideClient>>

TickerStep ==
  \/ TimerFires
  \/ SlotEmpty
  \/ PingSucceeds
  \/ PingFails
  \/ ReconnectSucceeds
  \/ ReconnectFails
  \/ TickerExit

TickerNext ==
  \/ TimerFires
  \/ SlotEmpty
  \/ PingSucceeds
  \/ PingFails
  \/ ReconnectSucceeds
  \/ ReconnectFails
  \/ TickerExit
  \/ Cancel

TickerSpec == InitPool /\ [][TickerNext]_vars

\* The timer keeps firing and every call the ticker makes returns.
TickerFairSpec == InitPool /\ [][TickerNext]_vars /\ WF_vars(TickerStep)

(***************************************************************************)
(* The callers of newStrm.                                                 *)
(***************************************************************************)
\* A goroutine enters newStrm.
CallNewStrm(p) ==
  /\ call[p].pc = "idle"
  /\ call' = [call EXCEPT ![p] = [IdleCall EXCEPT !.pc = "try"]]
  /\ UNCHANGED <<tickerVars, iterIndex, outsideClient>>

\* History: another call's Next() has advanced the shared counter while
\* call c was between two of its attempts.
Overtaken(c) ==
  IF c.pc \in {"try", "open"} /\ c.tries >= 1 THEN [c EXCEPT !.mixed = TRUE] ELSE c

\* newConn: Next() selects a slot; an empty slot is an error, else the slot's
\* session is returned.
NewConn(p) ==
  /\ call[p].pc = "try"
  /\ LET n == NextIndex(iterIndex, Len(Items))
         tc == Items[n + 1]
         c == [call[p] EXCEPT !.tries = @ + 1, !.nexts = @ + 1, !.slot = n + 1]
         others == [q \in DOMAIN call |-> Overtaken(call[q])]
     IN /\ iterIndex' = n
        /\ IF tc.conn = None
           THEN call' = [others EXCEPT ![p] = Continue(c, "notInitialized")]
           ELSE call' = [others EXCEPT ![p] = [c EXCEPT !.pc = "open", !.conn = tc.conn]]
  /\ UNCHANGED <<tickerVars, outsideClient>>

\* conn.OpenStrm() returns a stream: only a session that is not closed can.
OpenStrmSucceeds(p) ==
  /\ call[p].pc = "open"
  /\ call[p].conn \notin closed
  /\ call' = [call EXCEPT ![p] = ReturnStrm(call[p])]
  /\ UNCHANGED <<tickerVars, iterIndex, outsideClient>>

\* conn.OpenStrm() returns an error.
OpenStrmFails(p) ==
  /\ call[p].pc = "open"
  /\ call' = [call EXCEPT ![p] = Continue(call[p], "openFailed")]
  /\ UNCHANGED <<tickerVars, iterIndex, outsideClient>>

\* The caller has taken newStrm's result.
CallReturns(p) ==
  /\ call[p].pc = "done"
  /\ call' = [call EXCEPT ![p] = IdleCall]
  /\ UNCHANGED <<tickerVars, iterIndex, outsideClient>>

ClientNext ==
  \/ TimerFires
  \/ SlotEmpty
  \/ PingSucceeds
  \/ PingFails
  \/ ReconnectSucceeds
  \/ ReconnectFails
  \/ TickerExit
  \/ Cancel
  \/ \E p \in Callers : CallNewStrm(p)
  \/ \E p \in Callers : NewConn(p)
  \/ \E p \in Callers : OpenStrmSucceeds(p)
  \/ \E p \in Callers : OpenStrmFails(p)
  \/ \E p \in Callers : CallReturns(p)

\* The ticker together with the goroutines that acquire streams.
ClientSpec == InitPool /\ [][ClientNext]_vars

(***************************************************************************)
(* Stream acquisition on a pool with one bad slot: several goroutines call *)
(* newStrm, one slot is empty or holds a dead session, the sessions of the *)
(* other slots open every stream asked of them.                            *)
(***************************************************************************)
Dispatchers == 1..NumDispatchers

\* Slot b is empty or holds a session that is closed.
BadSlot(b, dead) ==
  IF dead THEN [conn |-> b, fails |-> maxHealthCheckFailures]
  ELSE [conn |-> None, fails |-> 0]

InitDispatch ==
  /\ IdleCopy
  /\ IdleProto
  /\ IdleSocket
  /\ variant = "none"
  /\ \E b \in Slots, dead \in BOOLEAN :
       /\ Items = [i \in Slots |->
                     IF i = b THEN BadSlot(b, dead) ELSE [conn |-> i, fails |-> 0]]
       /\ closed = IF dead THEN {b} ELSE {}
  /\ created = 0
  /\ ctxDone = FALSE
  /\ tpc = "none"
  /\ ti = 0
  /\ idx = 0
  /\ picked = <<>>
  /\ streak = [i \in Slots |-> 0]
  /\ ev = NoEvent
  /\ iterIndex \in 0..(TransportConn - 1)
  /\ call = [p \in Dispatchers |-> IdleCall]

\* conn.OpenStrm() on a dead session returns an error; on the other
\* sessions it does not fail.
OpenStrmOnDead(p) ==
  /\ call[p].conn \in closed
  /\ OpenStrmFails(p)

DispatchNext ==
  \/ \E p \in Dispatchers : CallNewStrm(p)
  \/ \E p \in Dispatchers : NewConn(p)
  \/ \E p \in Dispatchers : OpenStrmSucceeds(p)
  \/ \E p \in Dispatchers : OpenStrmOnDead(p)
  \/ \E p \in Dispatchers : CallReturns(p)

DispatchSpec == InitDispatch /\ [][DispatchNext]_vars

(***************************************************************************)
(* The stream-copy handlers.                                               *)
(***************************************************************************)
InitCopy ==
  /\ IdleClient
  /\ IdleProto
  /\ IdleSocket
  /\ handler \in Handlers
  /\ hpc = "start"
  /\ herr = "nil"
  /\ hret = "none"
  /\ parentDone = FALSE
  /\ copyDone = FALSE
  /\ connClosed = FALSE
  /\ strmClosed = FALSE
  /\ errChan = <<>>
  /\ drained = 0
  /\ task = [t \in Tasks |-> NotStarted]
  /\ strmOut = <<>>

\* (mutant) the drain loop receives one result only
AllDrained_One(n) == ~(n < 1)

\* for i := 0; i < 2; i++: the drain loop is over
AllDrained(n) == ~(n < 2)

\* (mutant) the handler closes the socket only
CloseEndpoints_SocketOnly == connClosed' = TRUE /\ strmClosed' = strmClosed

\* conn.Close(); strm.Close()
CloseEndpoints == connClosed' = TRUE /\ strmClosed' = TRUE

\* if e := <-errChan; e != nil && err == nil { err = e } (handleTCP only)
FirstError(h, err, e) ==
  IF h = "handleTCP" /\ e # "nil" /\ err = "nil" THEN e ELSE err

\* Goroutine 1 runs Copy(conn, strm) and reads the tunnel stream, goroutine
\* 2 runs Copy(strm, conn) and reads the socket.
SourceClosed(t) == IF t = 1 THEN strmClosed ELSE connClosed

\* The dial (server) or the stream acquisition (client forwarder) fails:
\* the handler returns the error.
OpenFails ==
  /\ hpc = "start"
  /\ hpc' = "returned"
  /\ hret' = "error"
  /\ herr' = "openError"
  /\ UNCHANGED <<handler, parentDone, copyDone, connClosed, strmClosed,
                 errChan, drained, task, strmOut, outsideCopy>>

\* What the tunnel stream holds, in the direction this end writes, when the
\* handler gets it: the client's TCP call has written the PTCP frame to the
\* stream it returns, the server has written nothing to the stream it serves.
Acquired(h) == IF h = "handleTCPConn" THEN <<"PTCP">> ELSE <<>>

\* The dial or the stream acquisition succeeds.
OpenSucceeds ==
  /\ hpc = "start"
  /\ hpc' = "opened"
  /\ strmOut' = Acquired(handler)
  /\ UNCHANGED <<handler, herr, hret, parentDone, copyDone, connClosed,
                 strmClosed, errChan, drained, task, outsideCopy>>

\* (mutant) the copy goroutines are started without the stream acquisition
CanSpawn_Unacquired == hpc \in {"start", "opened"}

\* The handler has passed the error return that follows the dial or the
\* stream acquisition.
CanSpawn == hpc = "opened"

\* copyCtx, copyCancel := context.WithCancel(ctx); the result channel is
\* made and the two copy goroutines are started.
Spawn ==
  /\ CanSpawn
  /\ copyDone' = parentDone
  /\ errChan' = <<>>
  /\ task' = [t \in Tasks |-> [pc |-> "copy", err |-> "nil"]]
  /\ hpc' = "wait"
  /\ UNCHANGED <<handler, herr, hret, parentDone, connClosed, strmClosed,
                 drained, strmOut, outsideCopy>>

\* <-copyCtx.Done()
WaitDone ==
  /\ hpc = "wait"
  /\ copyDone
  /\ hpc' = "close"
  /\ UNCHANGED <<handler, herr, hret, parentDone, copyDone, connClosed,
                 strmClosed, errChan, drained, task, strmOut, outsideCopy>>

\* conn.Close(); strm.Close(), then the drain loop starts.
CloseBoth ==
  /\ hpc = "close"
  /\ CloseEndpoints
  /\ drained' = 0
  /\ hpc' = "drain"
  /\ UNCHANGED <<handler, herr, hret, parentDone, copyDone, errChan, task,
                 strmOut, outsideCopy>>

\* <-errChan in the drain loop
Drain ==
  /\ hpc = "drain"
  /\ ~AllDrained(drained)
  /\ Len(errChan) > 0
  /\ herr' = FirstError(handler, herr, Head(errChan))
  /\ errChan' = Tail(errChan)
  /\ drained' = drained + 1
  /\ UNCHANGED <<handler, hpc, hret, parentDone, copyDone, connClosed,
                 strmClosed, task, strmOut, outsideCopy>>

\* (mutant) the handler returns the first copy error it recorded
ReturnValue_FirstError(err) == IF err = "nil" THEN "nil" ELSE "error"

\* return nil, whatever err holds
ReturnValue(err) == "nil"

\* return nil, and the deferred copyCancel() and Close() run.
Return ==
  /\ hpc = "drain"
  /\ AllDrained(drained)
  /\ hpc' = "returned"
  /\ hret' = ReturnValue(herr)
  /\ copyDone' = TRUE
  /\ IF handler = "handleTCPConn"
     THEN strmClosed' = TRUE /\ UNCHANGED connClosed
     ELSE connClosed' = TRUE /\ UNCHANGED strmClosed
  /\ UNCHANGED <<handler, herr, parentDone, errChan, drained, task, strmOut, outsideCopy>>

\* (mutant) the forwarder's goroutine leaves the accepted connection open
DeferredClose_Missing == connClosed' = connClosed

\* defer conn.Close() in the goroutine listenTCP starts per connection
DeferredClose == connClosed' = TRUE

\* handleTCPConn has returned to the goroutine listenTCP started for the
\* accepted connection: the deferred conn.Close() and f.wg.Done() run.
ForwardTaskEnds ==
  /\ handler = "handleTCPConn"
  /\ hpc = "returned"
  /\ DeferredClose
  /\ hpc' = "finished"
  /\ UNCHANGED <<handler, herr, hret, parentDone, copyDone, strmClosed,
                 errChan, drained, task, strmOut, outsideCopy>>

\* The parent context is cancelled; copyCtx, once derived from it, is
\* cancelled with it.
ParentCancel ==
  /\ ~parentDone
  /\ parentDone' = TRUE
  /\ copyDone' = IF hpc \in {"wait", "close", "drain"} THEN TRUE ELSE copyDone
  /\ UNCHANGED <<handler, hpc, herr, hret, connClosed, strmClosed, errChan,
                 drained, task, strmOut, outsideCopy>>

\* buffer.CopyT / buffer.CopyU returns because its source reached EOF or a
\* read or write failed.
CopyEnds(t) ==
  /\ task[t].pc = "copy"
  /\ \E e \in {"nil", "ioError"} :
       task' = [task EXCEPT ![t] = [pc |-> "cancel", err |-> e]]
  /\ UNCHANGED <<handler, hpc, herr, hret, parentDone, copyDone, connClosed,
                 strmClosed, errChan, drained, strmOut, outsideCopy>>

\* Copy(strm, conn) in goroutine 2 reads a chunk from the socket and writes
\* it to the tunnel stream.
CopyWrites(t) ==
  /\ t = 2
  /\ task[t].pc = "copy"
  /\ ~connClosed
  /\ ~strmClosed
  /\ Len(strmOut) < MaxChunks + 1
  /\ strmOut' = Append(strmOut, "data")
  /\ UNCHANGED <<handler, hpc, herr, hret, parentDone, copyDone, connClosed,
                 strmClosed, errChan, drained, task, outsideCopy>>

\* buffer.CopyT / buffer.CopyU returns because the endpoint it reads from
\* was closed: a read on a closed endpoint returns an error.
CopyUnblocks(t) ==
  /\ task[t].pc = "copy"
  /\ SourceClosed(t)
  /\ task' = [task EXCEPT ![t] = [pc |-> "cancel", err |-> "closedError"]]
  /\ UNCHANGED <<handler, hpc, herr, hret, parentDone, copyDone, connClosed,
                 strmClosed, errChan, drained, strmOut, outsideCopy>>

\* copyCancel() in the copy goroutine
TaskCancel(t) ==
  /\ task[t].pc = "cancel"
  /\ copyDone' = TRUE
  /\ task' = [task EXCEPT ![t].pc = "send"]
  /\ UNCHANGED <<handler, hpc, herr, hret, parentDone, connClosed, strmClosed,
                 errChan, drained, strmOut, outsideCopy>>

\* (mutant) the result channel holds one result only
ChanHasRoom_One(q) == Len(q) < 1

\* errChan := make(chan error, 2): a send completes at once while the
\* buffer is not full.
ChanHasRoom(q) == Len(q) < ErrChanCap

\* errChan <- err, the goroutine's last statement
TaskSend(t) ==
  /\ task[t].pc = "send"
  /\ ChanHasRoom(errChan)
  /\ errChan' = Append(errChan, task[t].err)
  /\ task' = [task EXCEPT ![t].pc = "done"]
  /\ UNCHANGED <<handler, hpc, herr, hret, parentDone, copyDone, connClosed,
                 strmClosed, drained, strmOut, outsideCopy>>

\* The steps of the handler goroutine.
HandlerStep ==
  \/ OpenFails \/ OpenSucceeds
  \/ Spawn \/ WaitDone \/ CloseBoth \/ Drain \/ Return
  \/ ForwardTaskEnds

\* The steps of copy goroutine t that do not wait for the peer.
TaskStep(t) == CopyUnblocks(t) \/ TaskCancel(t) \/ TaskSend(t)

CopyNext ==
  \/ \E t \in Tasks : CopyWrites(t)
  \/ OpenFails
  \/ OpenSucceeds
  \/ Spawn
  \/ WaitDone
  \/ CloseBoth
  \/ Drain
  \/ Return
  \/ ForwardTaskEnds
  \/ ParentCancel
  \/ \E t \in Tasks : CopyEnds(t)
  \/ \E t \in Tasks : CopyUnblocks(t)
  \/ \E t \in Tasks : TaskCancel(t)
  \/ \E t \in Tasks : TaskSend(t)

CopySpec == InitCopy /\ [][CopyNext]_vars

\* Every goroutine that can take a step eventually does, and I/O on a closed
\* endpoint returns.
CopyFairSpec ==
  /\ InitCopy
  /\ [][CopyNext]_vars
  /\ WF_vars(HandlerStep)
  /\ \A t \in Tasks : WF_vars(TaskStep(t))

(***************************************************************************)
(* Writing a frame to a stream and reading it back.                        *)
(***************************************************************************)
NoFrame == [Type |-> 0, Addr |-> NoAddr, TCPF |-> <<>>]

\* A host name of n letters.
HostOfLen(n) == [i \in 1..n |-> 97]

\* Sample hosts: short and long names and the IPv6 literal ::1.
SampleHosts ==
  {HostOfLen(n) : n \in {1, 2, LongHostLen, LongHostLen + 1}} \cup {<<58, 58, 49>>}

SamplePorts == {0, 443, 65535}

SampleAddrs == {[host |-> h, port |-> q] : h \in SampleHosts, q \in SamplePorts}

\* Every value of conf.TCPF.
AllTCPF ==
  [FIN : BOOLEAN, SYN : BOOLEAN, RST : BOOLEAN, PSH : BOOLEAN, ACK : BOOLEAN,
   URG : BOOLEAN, ECE : BOOLEAN, CWR : BOOLEAN, NS : BOOLEAN]

\* The i-th entry of a long sample flag list.
SampleTCPF(i) ==
  [FIN |-> i % 2 = 1, SYN |-> i % 3 = 0, RST |-> i % 5 = 0, PSH |-> i % 7 = 0,
   ACK |-> i % 2 = 0, URG |-> i % 11 = 0, ECE |-> i % 13 = 0, CWR |-> i % 4 = 1,
   NS |-> i % 3 = 1]

SampleLists ==
  {<<>>} \cup {<<f>> : f \in AllTCPF}
    \cup {<<SampleTCPF(i), SampleTCPF(j)>> : i, j \in 1..4}
    \cup {[i \in 1..n |-> SampleTCPF(i)] : n \in {LongListLen, LongListLen + 1, 256}}

\* The Proto values given to Write: every type byte without a body, dial
\* frames with and without an address, flag reports, and frames that carry
\* a field their type does not transmit.
Frames ==
  {[Type |-> t, Addr |-> NoAddr, TCPF |-> <<>>] : t \in 0..255}
    \cup {[Type |-> t, Addr |-> a, TCPF |-> <<>>] : t \in {PTCP, PUDP}, a \in SampleAddrs}
    \cup {[Type |-> PTCPF, Addr |-> NoAddr, TCPF |-> fs] : fs \in SampleLists}
    \cup {[Type |-> t, Addr |-> [host |-> <<97>>, port |-> 443], TCPF |-> <<SampleTCPF(1)>>] :
            t \in {PPING, PTCPF, PTCP}}

InitProto ==
  /\ IdleClient
  /\ IdleCopy
  /\ IdleSocket
  /\ ppc = "frame"
  /\ frame \in Frames
  /\ wire = <<>>
  /\ werr = "none"
  /\ cut = FALSE
  /\ decoded = NoProto

\* p.Write(strm)
ProtoWrite ==
  /\ ppc = "frame"
  /\ LET r == Write(frame) IN
       /\ wire' = r.out
       /\ werr' = r.err
  /\ ppc' = "wire"
  /\ UNCHANGED <<frame, cut, decoded, outsideProto>>

\* The stream ends after the first k bytes of the frame.
StreamCut ==
  /\ ppc = "wire"
  /\ ~cut
  /\ \E k \in 0..(Len(wire) - 1) : wire' = SubSeq(wire, 1, k)
  /\ cut' = TRUE
  /\ UNCHANGED <<ppc, frame, werr, decoded, outsideProto>>

\* p.Read(strm) on the receiving side
ProtoRead ==
  /\ ppc = "wire"
  /\ decoded' = Read(wire)
  /\ ppc' = "decoded"
  /\ UNCHANGED <<frame, wire, werr, cut, outsideProto>>

ProtoNext ==
  \/ ProtoWrite
  \/ StreamCut
  \/ ProtoRead

ProtoSpec == InitProto /\ [][ProtoNext]_vars

(***************************************************************************)
(* The TCP flag word: a conf.TCPF is encoded and decoded again, or a word  *)
(* read from a stream is decoded.                                          *)
(***************************************************************************)
InitTCPF ==
  /\ IdleTunnel
  /\ IdlePad
  /\ IdleRecv
  /\ IdleFake
  /\ IdleServer
  /\ IdleKcp
  /\ IdleLic
  /\ \/ /\ tfpc = "flags"
        /\ tcpfIn \in AllTCPF
        /\ flagWord = 0
     \/ /\ tfpc = "word"
        /\ tcpfIn = <<>>
        /\ flagWord \in 0..65535
  /\ tcpfOut = <<>>

\* binary.BigEndian.PutUint16(buf[:], encodeTCPF(tf)) in Proto.Write
TCPFEncode ==
  /\ tfpc = "flags"
  /\ flagWord' = encodeTCPF(tcpfIn)
  /\ tfpc' = "encoded"
  /\ UNCHANGED <<tcpfIn, tcpfOut, outsideTCPF>>

\* decodeTCPF(binary.BigEndian.Uint16(buf[:])) in Proto.Read
TCPFDecode ==
  /\ tfpc \in {"encoded", "word"}
  /\ tcpfOut' = decodeTCPF(flagWord)
  /\ tfpc' = IF tfpc = "encoded" THEN "decoded" ELSE "read"
  /\ UNCHANGED <<tcpfIn, flagWord, outsideTCPF>>

TCPFNext ==
  \/ TCPFEncode
  \/ TCPFDecode

TCPFSpec == InitTCPF /\ [][TCPFNext]_vars

(***************************************************************************)
(* Padding a payload on the sending side and removing the padding from a   *)
(* received datagram.                                                      *)
(***************************************************************************)
\* A payload of n bytes.
SamplePayload(n) == [i \in 1..n |-> (7 * i + 3) % 256]

\* Payload lengths: empty, short, around one length byte, a carrier MTU,
\* the longest the prefix can state, and longer.
PayloadLens == {0, 1, 2, 255, 256, 1350, MaxUint16, MaxUint16 + 1}

PadMaxes == {1, 2, DefaultPadMax, MaxPadMax}

\* Values of the two random bytes cryptoRandIntn reads.
RandomDraws == {0, 1, 2, DefaultPadMax, DefaultPadMax + 1, MaxPadMax, MaxPadMax + 1, MaxUint16}

PadFills == {0, 255}

\* Datagrams that did not come from WrapPadding.
StrayBytes == {0, 1, 2, 255}

StrayDatagrams ==
  UNION {[1..n -> StrayBytes] : n \in 0..4}

InitPad ==
  /\ IdleTunnel
  /\ IdleTCPF
  /\ IdleRecv
  /\ IdleFake
  /\ IdleServer
  /\ IdleKcp
  /\ IdleLic
  /\ \/ /\ padpc = "payload"
        /\ payload \in {SamplePayload(n) : n \in PayloadLens}
        /\ padMax \in PadMaxes
        /\ datagram = <<>>
     \/ /\ padpc = "datagram"
        /\ payload = <<>>
        /\ padMax = 0
        /\ datagram \in StrayDatagrams
  /\ unwrapped = <<>>

\* The sender pads the payload; the datagram reaches the receiver whole.
PadWrap ==
  /\ padpc = "payload"
  /\ \E rnd \in RandomDraws, fill \in PadFills :
       datagram' = WrapPadding(payload, padMax, rnd, fill)
  /\ padpc' = "padded"
  /\ UNCHANGED <<payload, padMax, unwrapped, outsidePad>>

\* A sender with padding disabled puts the payload on the wire as it is.
PadSendRaw ==
  /\ padpc = "payload"
  /\ datagram' = payload
  /\ padpc' = "raw"
  /\ UNCHANGED <<payload, padMax, unwrapped, outsidePad>>

\* Only the first k bytes of the padded datagram reach the receiver.
PadTruncate ==
  /\ padpc = "padded"
  /\ \E k \in {0, 1, 2, 3, Len(payload) + 1, Len(payload) + 2, Len(datagram) - 1} :
       /\ k < Len(datagram)
       /\ datagram' = SubSeq(datagram, 1, k)
  /\ padpc' = "datagram"
  /\ UNCHANGED <<payload, padMax, unwrapped, outsidePad>>

\* The receiver removes the padding.
PadUnwrap ==
  /\ padpc \in {"padded", "datagram", "raw"}
  /\ unwrapped' = UnwrapPadding(datagram)
  /\ padpc' = IF padpc = "padded" THEN "unwrapped"
             ELSE IF padpc = "raw" THEN "mismatch" ELSE "checked"
  /\ UNCHANGED <<payload, padMax, datagram, outsidePad>>

PadNext ==
  \/ PadWrap
  \/ PadSendRaw
  \/ PadTruncate
  \/ PadUnwrap

PadSpec == InitPad /\ [][PadNext]_vars

(***************************************************************************)
(* Frames arriving at the receive handle. A frame is laid out from a       *)
(* description: the number of 802.1Q tags, the EtherType, the IPv4 IHL and *)
(* the TCP data offset as written in the headers, the payload length, the  *)
(* sender, and how many bytes of it were captured.                         *)
(***************************************************************************)
Max(a, b) == IF a > b THEN a ELSE b

Senders == {1, 2}

SrcIPv4(s) == IF s = 1 THEN <<10, 0, 0, 7>> ELSE <<192, 168, 1, 2>>

SrcIPv6(s) == [i \in 1..16 |-> IF s = 1 THEN 32 + i ELSE 254 - i]

SrcPort(s) == IF s = 1 THEN 80 ELSE 50000

\* Destination and source MAC, the 802.1Q tags, the EtherType.
EthernetBytes(l) ==
  [i \in 1..12 |-> IF i <= 6 THEN 2 ELSE 4]
    \o (IF l.vlans >= 1 THEN <<129, 0, 0, 100>> ELSE <<>>)
    \o (IF l.vlans >= 2 THEN <<129, 0, 0, 101>> ELSE <<>>)
    \o (IF l.ether = "ipv4" THEN <<8, 0>>
        ELSE IF l.ether = "ipv6" THEN <<134, 221>> ELSE <<8, 6>>)

\* The network header: IPv4 with the IHL as written (at least 20 bytes are
\* laid out), IPv6, or the 28 bytes of an ARP packet.
NetworkBytes(l) ==
  IF l.ether = "ipv4"
  THEN [i \in 1..(Max(l.ihl, 5) * 4) |->
          IF i = 1 THEN 64 + l.ihl
          ELSE IF i = 9 THEN 64
          ELSE IF i = 10 THEN 6
          ELSE IF i \in 13..16 THEN SrcIPv4(l.src)[i - 12]
          ELSE IF i \in 17..20 THEN 9
          ELSE 1]
  ELSE IF l.ether = "ipv6"
  THEN [i \in 1..40 |->
          IF i = 1 THEN 96
          ELSE IF i = 7 THEN 6
          ELSE IF i \in 9..24 THEN SrcIPv6(l.src)[i - 8]
          ELSE 9]
  ELSE [i \in 1..28 |-> 0]

\* The TCP header with the data offset as written (at least 20 bytes are
\* laid out) and the payload.
TransportBytes(l) ==
  IF l.ether = "arp"
  THEN <<>>
  ELSE [i \in 1..(Max(l.doff, 5) * 4) |->
          IF i = 1 THEN SrcPort(l.src) \div 256
          ELSE IF i = 2 THEN SrcPort(l.src) % 256
          ELSE IF i = 3 THEN 31
          ELSE IF i = 4 THEN 144
          ELSE IF i = 13 THEN l.doff * 16
          ELSE IF i = 14 THEN 24
          ELSE 1]
         \o [i \in 1..l.plen |-> 200 + i]

WholeFrame(l) == EthernetBytes(l) \o NetworkBytes(l) \o TransportBytes(l)

\* Where the headers of the frame end, counted from the layout.
IPStart(l) == 14 + 4 * l.vlans
TCPStart(l) == IPStart(l) + Len(NetworkBytes(l))
PayloadStart(l) == TCPStart(l) + Max(l.doff, 5) * 4

\* Captured lengths around every header boundary.
CutPoints(l) ==
  {n \in {0, 13, 14, 17, 18, IPStart(l) + 19, IPStart(l) + 20, TCPStart(l) - 1,
          TCPStart(l), TCPStart(l) + 19, TCPStart(l) + 20, PayloadStart(l) - 1,
          PayloadStart(l), Len(WholeFrame(l)) - 1, Len(WholeFrame(l))} :
     n <= Len(WholeFrame(l))}

HeaderLens == {4, 5, 6, 15}

PayloadSizes == {0, 1, 3}

Shapes ==
  [vlans : 0..2, ether : {"ipv4"}, ihl : HeaderLens, doff : HeaderLens,
   plen : PayloadSizes, src : Senders]
    \cup [vlans : 0..2, ether : {"ipv6"}, ihl : {0}, doff : HeaderLens,
          plen : PayloadSizes, src : Senders]
    \cup [vlans : 0..2, ether : {"arp"}, ihl : {0}, doff : {0}, plen : {0}, src : {1}]

NoLayout == [vlans |-> 0, ether |-> "none", ihl |-> 0, doff |-> 0, plen |-> 0,
             src |-> 1, cut |-> 0]

WithCut(l, n) ==
  [vlans |-> l.vlans, ether |-> l.ether, ihl |-> l.ihl, doff |-> l.doff,
   plen |-> l.plen, src |-> l.src, cut |-> n]

Layouts == UNION {{WithCut(l, n) : n \in CutPoints(l)} : l \in Shapes}

FrameBytes(l) == SubSeq(WholeFrame(l), 1, l.cut)

ZeroIPv4 == <<0, 0, 0, 0>>
ZeroIPv6 == [i \in 1..16 |-> 0]

\* NewRecvHandle: the two buffers are allocated, no read is under way.
InitRecv ==
  /\ IdleTunnel
  /\ IdleTCPF
  /\ IdlePad
  /\ IdleFake
  /\ IdleServer
  /\ IdleKcp
  /\ IdleLic
  /\ rpc = "idle"
  /\ layout = NoLayout
  /\ captured = <<>>
  /\ ipv4Buf = ZeroIPv4
  /\ ipv6Buf = ZeroIPv6
  /\ rret = <<>>

\* Read is called and h.handle.ReadPacketData() returns a frame.
RecvCapture ==
  /\ rpc = "idle"
  /\ \E l \in Layouts :
       /\ layout' = l
       /\ captured' = [err |-> "nil", data |-> FrameBytes(l)]
  /\ rpc' = "captured"
  /\ UNCHANGED <<ipv4Buf, ipv6Buf, rret, outsideRecv>>

\* Read is called and h.handle.ReadPacketData() fails.
RecvCaptureFails ==
  /\ rpc = "idle"
  /\ layout' = NoLayout
  /\ captured' = [err |-> "captureError", data |-> <<>>]
  /\ rpc' = "captured"
  /\ UNCHANGED <<ipv4Buf, ipv6Buf, rret, outsideRecv>>

\* The rest of Read: the frame is parsed and Read returns.
RecvReturn ==
  /\ rpc = "captured"
  /\ LET r == RecvRead(captured, ipv4Buf, ipv6Buf) IN
       /\ rret' = r.ret
       /\ ipv4Buf' = r.ipv4Buf
       /\ ipv6Buf' = r.ipv6Buf
  /\ rpc' = "returned"
  /\ UNCHANGED <<layout, captured, outsideRecv>>

\* The caller is done with what Read returned.
RecvRelease ==
  /\ rpc = "returned"
  /\ rpc' = "idle"
  /\ layout' = NoLayout
  /\ captured' = <<>>
  /\ rret' = <<>>
  /\ UNCHANGED <<ipv4Buf, ipv6Buf, outsideRecv>>

RecvNext ==
  \/ RecvCapture
  \/ RecvCaptureFails
  \/ RecvReturn
  \/ RecvRelease

RecvSpec == InitRecv /\ [][RecvNext]_vars

(***************************************************************************)
(* The decoy cutoff: senders call dpiEvasion.shouldSendFake concurrently.  *)
(***************************************************************************)
FakeSenders == 1..NumSenders

\* Destinations (IP, port): one address with two ports.
Dests == {<<"10.0.0.1", 443>>, <<"10.0.0.1", 8443>>}

FakeCutoffs == {1, 2}

\* hash.IPAddr(dstIP, dstPort): one key per destination.
HashIPAddr(d) == d

IdleSender == [pc |-> "idle", dst |-> <<"", 0>>, counter |-> 0, count |-> 0,
               ticket |-> 0, calls |-> 0, ret |-> FALSE]

\* (mutant) the counter is stored whether or not the key is present
LoadOrStore_Store(pc, key, new) == [pc EXCEPT ![key] = new]

\* d.packetCount.LoadOrStore(key, new(atomic.Int64)); 0 means no entry
LoadOrStore(pc, key, new) == IF pc[key] # 0 THEN pc ELSE [pc EXCEPT ![key] = new]

\* count <= int64(d.cfg.FakeCutoff)
WithinCutoff(count, cfg) == count <= cfg.FakeCutoff

\* newDPIEvasion: nothing is counted yet, no sender is inside a call.
InitFake ==
  /\ IdleTunnel
  /\ IdleTCPF
  /\ IdlePad
  /\ IdleRecv
  /\ IdleServer
  /\ IdleKcp
  /\ IdleLic
  /\ dpiCfg \in [FakeEnabled : BOOLEAN, FakeCutoff : FakeCutoffs]
  /\ packetCount = [d \in Dests |-> 0]
  /\ counters = <<>>
  /\ sender = [s \in FakeSenders |-> IdleSender]
  /\ fakeLog = [d \in Dests |-> [adds |-> 0, results |-> {}]]

\* shouldSendFake with fake injection disabled: return false
FakeDisabled(s) ==
  /\ sender[s].pc = "idle"
  /\ sender[s].calls < MaxCalls
  /\ ~dpiCfg.FakeEnabled
  /\ \E d \in Dests :
       /\ sender' = [sender EXCEPT ![s] = [@ EXCEPT !.dst = d, !.ret = FALSE,
                                             !.calls = @ + 1]]
       /\ fakeLog' = [fakeLog EXCEPT ![d].results = @ \cup {<<0, FALSE>>}]
  /\ UNCHANGED <<dpiCfg, packetCount, counters, outsideFake>>

\* key := hash.IPAddr(dstIP, dstPort); val, _ := d.packetCount.LoadOrStore(...)
FakeLoadOrStore(s) ==
  /\ sender[s].pc = "idle"
  /\ sender[s].calls < MaxCalls
  /\ dpiCfg.FakeEnabled
  /\ \E d \in Dests :
       LET key == HashIPAddr(d)
           fresh == Len(counters) + 1
           stored == LoadOrStore(packetCount, key, fresh)
       IN  /\ packetCount' = stored
           /\ counters' = IF stored[key] = fresh THEN Append(counters, 0) ELSE counters
           /\ sender' = [sender EXCEPT ![s] = [@ EXCEPT !.pc = "add", !.dst = d,
                                                 !.counter = stored[key]]]
  /\ UNCHANGED <<dpiCfg, fakeLog, outsideFake>>

\* count := counter.Add(1)
FakeAdd(s) ==
  /\ sender[s].pc = "add"
  /\ LET c == sender[s].counter IN
       /\ counters' = [counters EXCEPT ![c] = @ + 1]
       /\ sender' = [sender EXCEPT ![s] = [@ EXCEPT !.pc = "return",
                                             !.count = counters[c] + 1,
                                             !.ticket = fakeLog[sender[s].dst].adds + 1]]
  /\ fakeLog' = [fakeLog EXCEPT ![sender[s].dst].adds = @ + 1]
  /\ UNCHANGED <<dpiCfg, packetCount, outsideFake>>

\* return count <= int64(d.cfg.FakeCutoff)
FakeReturn(s) ==
  /\ sender[s].pc = "return"
  /\ LET r == WithinCutoff(sender[s].count, dpiCfg) IN
       /\ sender' = [sender EXCEPT ![s] = [@ EXCEPT !.pc = "idle", !.ret = r,
                                             !.calls = @ + 1]]
       /\ fakeLog' = [fakeLog EXCEPT ![sender[s].dst].results =
                                        @ \cup {<<sender[s].ticket, r>>}]
  /\ UNCHANGED <<dpiCfg, packetCount, counters, outsideFake>>

FakeNext ==
  \/ \E s \in FakeSenders : FakeDisabled(s)
  \/ \E s \in FakeSenders : FakeLoadOrStore(s)
  \/ \E s \in FakeSenders : FakeAdd(s)
  \/ \E s \in FakeSenders : FakeReturn(s)

FakeSpec == InitFake /\ [][FakeNext]_vars

(***************************************************************************)
(* The server: Server.Start, the accept loop Server.listen and the session *)
(* goroutines it starts.                                                   *)
(***************************************************************************)
Sessions == 1..MaxSessions

\* (mutant) Start does not wait for the goroutines
WgWait_NoWait(n) == TRUE

\* s.wg.Wait() returns
WgWait(n) == n = 0

\* Server.Start is called: the root context exists, nothing else yet.
InitServer ==
  /\ IdleTunnel
  /\ IdleTCPF
  /\ IdlePad
  /\ IdleRecv
  /\ IdleFake
  /\ IdleKcp
  /\ IdleLic
  /\ spc \in {"socket", "bind"}
  /\ sret = "none"
  /\ sig = "none"
  /\ rootDone = FALSE
  /\ listenerClosed = FALSE
  /\ lpc = "none"
  /\ closerpc = "none"
  /\ session = [i \in Sessions |-> "none"]
  /\ wg = 0

\* SIGINT or SIGTERM arrives while Start runs: it is queued on sig.
SignalArrives ==
  /\ spc \notin {"returned", "fwdReturned"}
  /\ sig = "none"
  /\ sig' = "pending"
  /\ UNCHANGED <<spc, sret, rootDone, listenerClosed, lpc, closerpc, session, wg, outsideServer>>

\* <-sig; cancel() in the signal goroutine
SignalReceived ==
  /\ sig = "pending"
  /\ sig' = "received"
  /\ rootDone' = TRUE
  /\ UNCHANGED <<spc, sret, listenerClosed, lpc, closerpc, session, wg, outsideServer>>

\* socket.New fails: Start returns the error; the deferred cancel() runs.
SocketFails ==
  /\ spc = "socket"
  /\ spc' = "returned"
  /\ sret' = "error"
  /\ rootDone' = TRUE
  /\ UNCHANGED <<sig, listenerClosed, lpc, closerpc, session, wg, outsideServer>>

\* socket.New succeeds.
SocketOpens ==
  /\ spc = "socket"
  /\ spc' = "kcp"
  /\ UNCHANGED <<sret, sig, rootDone, listenerClosed, lpc, closerpc, session, wg, outsideServer>>

\* kcp.Listen fails: Start returns the error; the deferred cancel() runs.
KcpListenFails ==
  /\ spc = "kcp"
  /\ spc' = "returned"
  /\ sret' = "error"
  /\ rootDone' = TRUE
  /\ UNCHANGED <<sig, listenerClosed, lpc, closerpc, session, wg, outsideServer>>

\* kcp.Listen succeeds; s.wg.Add(1) and the goroutine running s.listen is
\* started.
SpawnListen ==
  /\ spc = "kcp"
  /\ wg' = wg + 1
  /\ lpc' = "start"
  /\ spc' = "wait"
  /\ UNCHANGED <<sret, sig, rootDone, listenerClosed, closerpc, session, outsideServer>>

\* s.wg.Wait() returns and Start returns nil; the deferred listener.Close()
\* and cancel() run.
StartReturns ==
  /\ spc = "wait"
  /\ WgWait(wg)
  /\ spc' = "returned"
  /\ sret' = "nil"
  /\ listenerClosed' = TRUE
  /\ rootDone' = TRUE
  /\ UNCHANGED <<sig, lpc, closerpc, session, wg, outsideServer>>

\* listen starts the goroutine that closes the listener on ctx.Done().
ListenStart ==
  /\ lpc = "start"
  /\ closerpc' = "wait"
  /\ lpc' = "select"
  /\ UNCHANGED <<spc, sret, sig, rootDone, listenerClosed, session, wg, outsideServer>>

\* <-ctx.Done(); listener.Close()
CloserCloses ==
  /\ closerpc = "wait"
  /\ rootDone
  /\ listenerClosed' = TRUE
  /\ closerpc' = "done"
  /\ UNCHANGED <<spc, sret, sig, rootDone, lpc, session, wg, outsideServer>>

\* (mutant) the select of an accept loop returns whatever the scope says
SelectReturns_Always(done) == TRUE

\* case <-ctx.Done(): return
SelectReturns(done) == done

\* select: case <-ctx.Done(): return, and the deferred s.wg.Done() runs.
SelectDone ==
  /\ lpc = "select"
  /\ SelectReturns(rootDone)
  /\ lpc' = "exit"
  /\ wg' = wg - 1
  /\ UNCHANGED <<spc, sret, sig, rootDone, listenerClosed, closerpc, session, outsideServer>>

\* select: default, then listener.Accept() is called.
SelectDefault ==
  /\ lpc = "select"
  /\ ~rootDone
  /\ lpc' = "accept"
  /\ UNCHANGED <<spc, sret, sig, rootDone, listenerClosed, closerpc, session, wg, outsideServer>>

\* Accept returns a connection: s.wg.Add(1) and its goroutine is started.
AcceptSucceeds ==
  /\ lpc = "accept"
  /\ ~listenerClosed
  /\ \E i \in Sessions :
       /\ session[i] = "none"
       /\ \A j \in Sessions : j < i => session[j] # "none"
       /\ session' = [session EXCEPT ![i] = "running"]
  /\ wg' = wg + 1
  /\ lpc' = "select"
  /\ UNCHANGED <<spc, sret, sig, rootDone, listenerClosed, closerpc, outsideServer>>

\* Accept fails on the open listener: the error is logged, continue.
AcceptFails ==
  /\ lpc = "accept"
  /\ ~listenerClosed
  /\ lpc' = "select"
  /\ UNCHANGED <<spc, sret, sig, rootDone, listenerClosed, closerpc, session, wg, outsideServer>>

\* Accept on the closed listener returns an error: logged, continue.
AcceptClosed ==
  /\ lpc = "accept"
  /\ listenerClosed
  /\ lpc' = "select"
  /\ UNCHANGED <<spc, sret, sig, rootDone, listenerClosed, closerpc, session, wg, outsideServer>>

\* The client forwarder. net.Listen fails: listenTCP returns the error.
BindFails ==
  /\ spc = "bind"
  /\ spc' = "fwdReturned"
  /\ sret' = "error"
  /\ UNCHANGED <<sig, rootDone, listenerClosed, lpc, closerpc, session, wg, outsideServer>>

\* net.Listen succeeds: the goroutine that closes the listener on
\* ctx.Done() is started and listenTCP enters its loop at Accept.
BindSucceeds ==
  /\ spc = "bind"
  /\ spc' = "fwdLoop"
  /\ closerpc' = "wait"
  /\ lpc' = "fwdAccept"
  /\ UNCHANGED <<sret, sig, rootDone, listenerClosed, session, wg, outsideServer>>

\* listenTCP: Accept returns a connection, f.wg.Add(1) and its goroutine is
\* started; the loop calls Accept again.
FwdAcceptSucceeds ==
  /\ lpc = "fwdAccept"
  /\ ~listenerClosed
  /\ \E i \in Sessions :
       /\ session[i] = "none"
       /\ \A j \in Sessions : j < i => session[j] # "none"
       /\ session' = [session EXCEPT ![i] = "running"]
  /\ wg' = wg + 1
  /\ UNCHANGED <<spc, sret, sig, rootDone, listenerClosed, lpc, closerpc, outsideServer>>

\* listenTCP: Accept fails on the open listener.
FwdAcceptFails ==
  /\ lpc = "fwdAccept"
  /\ ~listenerClosed
  /\ lpc' = "fwdSelect"
  /\ UNCHANGED <<spc, sret, sig, rootDone, listenerClosed, closerpc, session, wg, outsideServer>>

\* listenTCP: Accept on the closed listener returns an error.
FwdAcceptClosed ==
  /\ lpc = "fwdAccept"
  /\ listenerClosed
  /\ lpc' = "fwdSelect"
  /\ UNCHANGED <<spc, sret, sig, rootDone, listenerClosed, closerpc, session, wg, outsideServer>>

\* listenTCP, after a failed Accept: case <-ctx.Done(): return nil, and the
\* deferred listener.Close() runs.
FwdSelectDone ==
  /\ lpc = "fwdSelect"
  /\ SelectReturns(rootDone)
  /\ lpc' = "exit"
  /\ spc' = "fwdReturned"
  /\ sret' = "nil"
  /\ listenerClosed' = TRUE
  /\ UNCHANGED <<sig, rootDone, closerpc, session, wg, outsideServer>>

\* listenTCP, after a failed Accept: default: the error is logged, continue.
FwdSelectDefault ==
  /\ lpc = "fwdSelect"
  /\ ~rootDone
  /\ lpc' = "fwdAccept"
  /\ UNCHANGED <<spc, sret, sig, rootDone, listenerClosed, closerpc, session, wg, outsideServer>>

\* s.handleConn returns in a session goroutine and the first deferred
\* function closes the connection.
SessionCloses(i) ==
  /\ session[i] = "running"
  /\ session' = [session EXCEPT ![i] = "closed"]
  /\ UNCHANGED <<spc, sret, sig, rootDone, listenerClosed, lpc, closerpc, wg, outsideServer>>

\* The deferred s.wg.Done() of a session goroutine: the goroutine ends.
SessionEnds(i) ==
  /\ session[i] = "closed"
  /\ session' = [session EXCEPT ![i] = "done"]
  /\ wg' = wg - 1
  /\ UNCHANGED <<spc, sret, sig, rootDone, listenerClosed, lpc, closerpc, outsideServer>>

\* The steps of the accept loop's goroutine that do not wait for a peer.
ListenStep ==
  \/ ListenStart \/ SelectDone \/ SelectDefault \/ AcceptClosed
  \/ FwdAcceptClosed \/ FwdSelectDone \/ FwdSelectDefault

ServerNext ==
  \/ SignalArrives
  \/ SignalReceived
  \/ SocketFails
  \/ SocketOpens
  \/ KcpListenFails
  \/ SpawnListen
  \/ StartReturns
  \/ ListenStart
  \/ CloserCloses
  \/ SelectDone
  \/ SelectDefault
  \/ AcceptSucceeds
  \/ AcceptFails
  \/ AcceptClosed
  \/ BindFails
  \/ BindSucceeds
  \/ FwdAcceptSucceeds
  \/ FwdAcceptFails
  \/ FwdAcceptClosed
  \/ FwdSelectDone
  \/ FwdSelectDefault
  \/ \E i \in Sessions : SessionCloses(i)
  \/ \E i \in Sessions : SessionEnds(i)

ServerSpec == InitServer /\ [][ServerNext]_vars

\* Every goroutine that can take a step eventually does, and Accept on a
\* closed listener returns.
ServerFairSpec ==
  /\ InitServer
  /\ [][ServerNext]_vars
  /\ WF_vars(ListenStep)
  /\ WF_vars(CloserCloses)

(***************************************************************************)
(* The transport profile: aplConf applies a conf.KCP to a carrier session. *)
(***************************************************************************)
Modes == {"normal", "fast", "fast2", "fast3", "stream", "1to1", "manual"}

\* What aplConf passes to SetNoDelay, SetWriteDelay and SetACKNoDelay.
Profile(nd, iv, rs, nc, wd, ack) ==
  [noDelay |-> nd, interval |-> iv, resend |-> rs, noCongestion |-> nc,
   wDelay |-> wd, ackNoDelay |-> ack]

\* (mutant) the normal profile of the transport's own defaults
PresetNormal_Congestion == Profile(0, 40, 2, 0, TRUE, FALSE)

\* case "normal"
PresetNormal == Profile(0, 40, 2, 1, TRUE, FALSE)

\* case "manual": the configured values with their fallbacks
Manual(cfg) ==
  Profile(cfg.NoDelay,
          IF cfg.Interval = 0 THEN 15 ELSE cfg.Interval,
          IF cfg.Resend = 0 THEN 2 ELSE cfg.Resend,
          cfg.NoCongestion,
          IF cfg.WDelay THEN FALSE ELSE cfg.WDelay,
          IF ~cfg.AckNoDelay THEN TRUE ELSE cfg.AckNoDelay)

\* aplConf: the switch on cfg.Mode; no case matches an unknown mode and the
\* variables keep their zero values.
ModeProfile(cfg) ==
  IF cfg.Mode = "normal" THEN PresetNormal
  ELSE IF cfg.Mode = "fast" THEN Profile(1, 20, 2, 1, FALSE, TRUE)
  ELSE IF cfg.Mode = "fast2" THEN Profile(1, 15, 2, 1, FALSE, TRUE)
  ELSE IF cfg.Mode = "fast3" THEN Profile(1, 10, 2, 1, FALSE, TRUE)
  ELSE IF cfg.Mode = "stream" THEN Profile(1, 15, 2, 1, FALSE, TRUE)
  ELSE IF cfg.Mode = "1to1" THEN Profile(1, 20, 2, 1, FALSE, TRUE)
  ELSE IF cfg.Mode = "manual" THEN Manual(cfg)
  ELSE Profile(0, 0, 0, 0, FALSE, FALSE)

\* aplConf: what the session's setters are called with
aplConf(cfg) ==
  LET p == ModeProfile(cfg) IN
    [noDelay |-> p.noDelay, interval |-> p.interval, resend |-> p.resend,
     noCongestion |-> p.noCongestion, sndwnd |-> cfg.Sndwnd, rcvwnd |-> cfg.Rcvwnd,
     mtu |-> cfg.MTU, wDelay |-> p.wDelay, ackNoDelay |-> p.ackNoDelay, dscp |-> 0]

\* The conf.KCP values given to aplConf: every mode, with the manual fields
\* set or left at zero.
KcpConfs ==
  [Mode : Modes, NoDelay : {0, 1}, Interval : {0, 10, 40}, Resend : {0, 1, 2},
   NoCongestion : {0, 1}, WDelay : BOOLEAN, AckNoDelay : BOOLEAN,
   Sndwnd : {1024}, Rcvwnd : {1024}, MTU : {1350}]

InitKcp ==
  /\ IdleTunnel
  /\ IdleTCPF
  /\ IdlePad
  /\ IdleRecv
  /\ IdleFake
  /\ IdleServer
  /\ IdleLic
  /\ kpc = "conf"
  /\ kcfg \in KcpConfs
  /\ applied = <<>>

\* aplConf(conn, cfg)
KcpApply ==
  /\ kpc = "conf"
  /\ applied' = aplConf(kcfg)
  /\ kpc' = "applied"
  /\ UNCHANGED <<kcfg, outsideKcp>>

KcpNext == KcpApply

KcpSpec == InitKcp /\ [][KcpNext]_vars

(***************************************************************************)
(* License enforcement at startup: Enforce with its cache file and the     *)
(* activation server.                                                      *)
(***************************************************************************)
Space == 32
Slash == 47
Pipe == 124
\* http.StatusOK
StatusOK == 200

\* unicode.IsSpace on the ASCII range
IsSpace(b) == b \in {9, 10, 11, 12, 13, Space}

\* strings.TrimSpace(q)
TrimSpace(q) ==
  LET keep == {i \in DOMAIN q : ~IsSpace(q[i])} IN
  IF keep = {} THEN <<>>
  ELSE SubSeq(q, CHOOSE i \in keep : \A j \in keep : i <= j,
                 CHOOSE i \in keep : \A j \in keep : j <= i)

\* strings.TrimRight(q, "/")
TrimRight(q) ==
  LET keep == {i \in DOMAIN q : q[i] # Slash} IN
  IF keep = {} THEN <<>>
  ELSE SubSeq(q, 1, CHOOSE i \in keep : \A j \in keep : j <= i)

\* One of the characters 0-9a-f.
HexDigit(n) == IF n < 10 THEN 48 + n ELSE 87 + n

\* hex.EncodeToString(q)
RECURSIVE EncodeToString(_)
EncodeToString(q) ==
  IF Len(q) = 0 THEN <<>>
  ELSE <<HexDigit(q[1] \div 16), HexDigit(q[1] % 16)>> \o EncodeToString(Tail(q))

\* sha256.Sum256(q). The digest is taken to be free of collisions: it is
\* represented by the bytes it was computed from.
Sum256(q) == q

\* bindingKey(base, key, serverID)
bindingKey(base, key, serverID) ==
  EncodeToString(Sum256(base \o <<Pipe>> \o key \o <<Pipe>> \o serverID))

\* computeServerID(): the machine id, a value of the environment.
computeServerID == <<109>>

\* The cache file: absent, not a JSON cacheEntry, or a cacheEntry.
NoFile == [kind |-> "absent", Binding |-> <<>>]

Unparsable == [kind |-> "garbage", Binding |-> <<>>]

Entry(b) == [kind |-> "entry", Binding |-> b]

\* isCached(binding), file being the content of the cache file.
isCached(file, binding) ==
  /\ file.kind = "entry"
  /\ TrimSpace(file.Binding) = binding

\* base, key and serverID as Enforce computes them from cfg.License.
Base(cfg) == TrimRight(TrimSpace(cfg.URL))

Key(cfg) == TrimSpace(cfg.Key)

ServerID(cfg) ==
  IF TrimSpace(cfg.ServerID) = <<>> THEN computeServerID
  ELSE TrimSpace(cfg.ServerID)

Binding(cfg) == bindingKey(Base(cfg), Key(cfg), ServerID(cfg))

\* The answer is accepted only as HTTP 200 with ok = true in its body.
Accepted_Any2xx(status, ok) == status \in 200..299 /\ ok

\* resp.StatusCode != http.StatusOK ... !ar.OK ...
Accepted(status, ok) == status = StatusOK /\ ok

NoAnswer == [status |-> 0, ok |-> FALSE]

\* Sample values of cfg.License.URL, Key and ServerID.
SampleURLs == {<<>>, <<Space>>, <<Slash>>, <<117>>, <<117, Slash>>,
               <<Space, 117, Slash, Slash, Space>>, <<118>>}

SampleKeys == {<<>>, <<Space>>, <<107>>, <<Space, 107, 10>>, <<106>>}

SampleServerIDs == {<<>>, <<115>>, <<115, Space>>}

LicConfs ==
  [URL : SampleURLs, Key : SampleKeys, ServerID : SampleServerIDs]

\* The status codes an activation server answers with.
SampleStatus == {200, 204, 403, 500}

\* The process starts with a configuration; the cache file is absent or
\* unreadable until an earlier start has written it.
InitLic ==
  /\ IdleTunnel
  /\ IdleTCPF
  /\ IdlePad
  /\ IdleRecv
  /\ IdleFake
  /\ IdleServer
  /\ IdleKcp
  /\ epc = "start"
  /\ licCfg \in LicConfs
  /\ cacheFile \in {NoFile, Unparsable}
  /\ cacheBefore = cacheFile
  /\ posts = 0
  /\ answer = NoAnswer
  /\ eret = "none"
  /\ starts = 1

\* if base == "" || key == "" { return fmt.Errorf("license config missing") }
EnforceMissing ==
  /\ epc = "start"
  /\ Base(licCfg) = <<>> \/ Key(licCfg) = <<>>
  /\ eret' = "license config missing"
  /\ epc' = "returned"
  /\ UNCHANGED <<licCfg, cacheFile, cacheBefore, posts, answer, starts, outsideLic>>

\* if isCached(binding) { return nil }
EnforceCached ==
  /\ epc = "start"
  /\ Base(licCfg) # <<>>
  /\ Key(licCfg) # <<>>
  /\ isCached(cacheFile, Binding(licCfg))
  /\ eret' = "nil"
  /\ epc' = "returned"
  /\ UNCHANGED <<licCfg, cacheFile, cacheBefore, posts, answer, starts, outsideLic>>

\* Not cached: the request is built.
EnforceNotCached ==
  /\ epc = "start"
  /\ Base(licCfg) # <<>>
  /\ Key(licCfg) # <<>>
  /\ ~isCached(cacheFile, Binding(licCfg))
  /\ epc' = "request"
  /\ UNCHANGED <<licCfg, cacheFile, cacheBefore, posts, answer, eret, starts, outsideLic>>

\* http.NewRequestWithContext returns an error (a URL it cannot parse).
NewRequestFails ==
  /\ epc = "request"
  /\ eret' = "invalid request"
  /\ epc' = "returned"
  /\ UNCHANGED <<licCfg, cacheFile, cacheBefore, posts, answer, starts, outsideLic>>

\* client.Do(req): the POST leaves
DoRequest ==
  /\ epc = "request"
  /\ posts' = posts + 1
  /\ epc' = "sent"
  /\ UNCHANGED <<licCfg, cacheFile, cacheBefore, answer, eret, starts, outsideLic>>

\* client.Do returns an error: no answer before the timeout.
ServerUnreachable ==
  /\ epc = "sent"
  /\ eret' = "license server unreachable"
  /\ epc' = "returned"
  /\ UNCHANGED <<licCfg, cacheFile, cacheBefore, posts, answer, starts, outsideLic>>

\* The server answers with a status and a body; a body that is not JSON
\* leaves ar.OK false.
ServerAnswers ==
  /\ epc = "sent"
  /\ \E status \in SampleStatus, ok \in BOOLEAN :
       /\ answer' = [status |-> status, ok |-> ok]
       /\ IF Accepted(status, ok)
          THEN epc' = "write" /\ eret' = eret
          ELSE epc' = "returned" /\ eret' = "license denied"
  /\ UNCHANGED <<licCfg, cacheFile, cacheBefore, posts, starts, outsideLic>>

\* _ = writeCache(binding); return nil. MkdirAll may fail (the file is left
\* alone) and WriteFile may fail after truncating the file.
WriteCache ==
  /\ epc = "write"
  /\ cacheFile' \in {Entry(Binding(licCfg)), cacheFile, Unparsable}
  /\ eret' = "nil"
  /\ epc' = "returned"
  /\ UNCHANGED <<licCfg, cacheBefore, posts, answer, starts, outsideLic>>

\* The process starts again, with the same or another configuration, and
\* calls Enforce.
StartAgain ==
  /\ epc = "returned"
  /\ starts < MaxStarts
  /\ starts' = starts + 1
  /\ licCfg' \in LicConfs
  /\ cacheBefore' = cacheFile
  /\ posts' = 0
  /\ answer' = NoAnswer
  /\ eret' = "none"
  /\ epc' = "start"
  /\ UNCHANGED <<cacheFile, outsideLic>>

LicNext ==
  \/ EnforceMissing
  \/ EnforceCached
  \/ EnforceNotCached
  \/ NewRequestFails
  \/ DoRequest
  \/ ServerUnreachable
  \/ ServerAnswers
  \/ WriteCache
  \/ StartAgain

LicSpec == InitLic /\ [][LicNext]_vars

(***************************************************************************)
(* Properties of the health ticker.                                        *)
(***************************************************************************)
ReconnectEvents == {"reconnectOk", "reconnectFail"}

\* C1 (as stated): once the ticker has handled a ping failure that brought a
\* slot to maxHealthCheckFailures consecutive failures, the slot's session
\* identity has changed exactly once: the old session is closed and one new
\* session from the factory is installed.
C1_IdentityChangesOnce ==
  ev.kind \in ReconnectEvents =>
    /\ ev.conn \in closed
    /\ Items[ev.slot].conn # ev.conn
    /\ Items[ev.slot].conn \notin closed
    /\ created = ev.created + 1

\* C1 (amended): a ping failure below the threshold is not followed by a
\* replacement; at the threshold the old session is closed and the factory
\* is called once; if the factory succeeds the slot's session identity
\* changes exactly once (one new session, not closed, counter 0), and if the
\* factory fails no session is created and the slot's session is unchanged.
C1_ThresholdReplacement ==
  /\ ev.kind = "pingFail" => streak[ev.slot] < Threshold(variant)
  /\ ev.kind = "close" =>
       /\ streak[ev.slot] >= Threshold(variant)
       /\ ev.conn \in closed
       /\ Items[ev.slot].conn = ev.conn
  /\ ev.kind = "reconnectOk" =>
       /\ ev.conn \in closed
       /\ Items[ev.slot].conn # ev.conn
       /\ Items[ev.slot].conn \notin closed
       /\ Items[ev.slot].conn = TransportConn + ev.created + 1
       /\ created = ev.created + 1
       /\ Items[ev.slot].fails = 0
  /\ ev.kind = "reconnectFail" =>
       /\ ev.conn \in closed
       /\ Items[ev.slot].conn = ev.conn
       /\ created = ev.created

\* C1 witness: a slot that reached exactly the threshold got a new session.
C1_Witness ==
  /\ ev.kind = "reconnectOk"
  /\ ev.fails = Threshold(variant)
  /\ Items[ev.slot].conn # ev.conn

\* C2: after a successful health-check ping of a slot its failure counter is
\* 0, whatever it was before the ping.
C2_SuccessResetsCounter ==
  ev.kind = "pingOk" => Items[ev.slot].fails = 0

\* C2 witness: a ping succeeded on a slot whose counter was positive.
C2_Witness ==
  /\ ev.kind = "pingOk"
  /\ ev.fails > 0
  /\ Items[ev.slot].fails = 0

\* C3: in every reachable state each slot is empty or holds a session that
\* is not closed, with fails >= 0.
C3_SlotEmptyOrValid ==
  \A i \in DOMAIN Items :
    \/ Items[i].conn = None
    \/ /\ Items[i].conn \notin closed
       /\ Items[i].fails >= 0

\* C4: the pool length is Transport.Conn in every state, from start to
\* shutdown, whatever the pings and the factories did.
C4_PoolLengthFixed ==
  /\ Len(Items) = TransportConn
  /\ DOMAIN Items = Slots

\* C4 witness: the ticker has exited after a slot was re-filled and another
\* reconnect had failed.
C4_Witness ==
  /\ tpc = "exit"
  /\ created > 0
  /\ \E i \in Slots : Items[i].conn \in closed

\* C5: a slot that is empty is retried by the ticker: unless the client shuts
\* down, the ticker eventually calls the slot's factory.
C5_EmptySlotRetried ==
  \A i \in Slots :
    [](Items[i].conn = None /\ ~ctxDone
         => <>(ctxDone \/ (ev.kind \in ReconnectEvents /\ ev.slot = i)))

(***************************************************************************)
(* Properties of stream acquisition.                                       *)
(***************************************************************************)
\* C6: newStrm makes at most 3 attempts, each taking one Next() slot; it
\* returns the stream of the first attempt that succeeds, and only after 3
\* failed attempts an error that wraps the last attempt's error.
C6_NewStrmRetries ==
  \A p \in Callers :
    /\ call[p].tries <= 3
    /\ call[p].nexts = call[p].tries
    /\ call[p].pc = "done" =>
         /\ call[p].ret \in {"strm", "error"}
         /\ call[p].ret = "strm" =>
              /\ call[p].failed = call[p].tries - 1
              /\ call[p].lastTry = "nil"
              /\ call[p].strm # None
              /\ call[p].strm = call[p].conn
         /\ call[p].ret = "error" =>
              /\ call[p].tries = 3
              /\ call[p].failed = 3
              /\ call[p].lastTry # "nil"
              /\ call[p].wraps = call[p].lastTry

\* C6 witness: a call failed on an empty slot, then on a stream open, and
\* returned the stream of its third attempt.
C6_Witness ==
  \E p \in Callers :
    /\ call[p].pc = "done"
    /\ call[p].ret = "strm"
    /\ call[p].tries = 3
    /\ call[p].lastErr = "openFailed"

\* C6 witness of the error case: three failed attempts, the last on an
\* empty slot.
C6_WitnessError ==
  \E p \in Callers :
    /\ call[p].pc = "done"
    /\ call[p].ret = "error"
    /\ call[p].wraps = "notInitialized"

(***************************************************************************)
(* Properties of the stream-copy engine.                                   *)
(***************************************************************************)
\* C7: the handler returns only after both copy directions have terminated:
\* it has never returned while a copy goroutine is still running.
C7_ReturnsAfterBothCopies ==
  hpc = "returned" =>
    /\ hret = "nil" => \A t \in Tasks : task[t].pc = "done"
    /\ hret = "error" => \A t \in Tasks : task[t].pc = "none"

\* C7 witness: the handler has returned after one direction ended by itself
\* and the other one was unblocked by the close.
C7_Witness ==
  /\ hpc = "returned"
  /\ hret = "nil"
  /\ ~parentDone
  /\ \E t \in Tasks : task[t].pc = "done" /\ task[t].err = "closedError"
  /\ \E t \in Tasks : task[t].pc = "done" /\ task[t].err = "nil"

\* A copy direction has terminated, or the parent scope is cancelled, after
\* the dial succeeded and before the handler has returned.
TeardownStarted ==
  /\ hpc \in {"opened", "wait", "close", "drain"}
  /\ \/ parentDone
     \/ \E t \in Tasks : task[t].pc \in {"cancel", "send", "done"}

\* C8: once the first copy direction terminates or the parent scope is
\* cancelled, the shared scope gets cancelled and both endpoints closed, the
\* opposite copy terminates and the handler returns.
C8_TeardownCompletes ==
  /\ TeardownStarted ~> (copyDone /\ connClosed /\ strmClosed)
  /\ TeardownStarted ~> (\A t \in Tasks : task[t].pc = "done")
  /\ TeardownStarted ~> (hpc = "returned")

\* C8 witness: the parent scope was cancelled while both copies were
\* blocked, and the handler has returned.
C8_Witness ==
  /\ hpc = "returned"
  /\ hret = "nil"
  /\ parentDone
  /\ \A t \in Tasks : task[t].pc = "done" /\ task[t].err = "closedError"

(***************************************************************************)
(* Properties of the handlers' error paths.                                *)
(***************************************************************************)
\* The forwarder's stream acquisition for the accepted connection failed.
AcquisitionFailed == handler = "handleTCPConn" /\ hret = "error"

\* C17: in the client TCP forwarder, when stream acquisition for an accepted
\* local connection fails, no copy task is started and the local connection
\* is closed.
C17_FailedAcquisitionClosesLocal ==
  /\ [](AcquisitionFailed => \A t \in Tasks : task[t] = NotStarted)
  /\ []((AcquisitionFailed /\ hpc = "finished") => connClosed)
  /\ AcquisitionFailed ~> connClosed

\* The acquisition failed; the connection's goroutine has ended with the
\* local connection closed, no stream and no copy task.
C17_Witness ==
  /\ AcquisitionFailed
  /\ hpc = "finished"
  /\ herr = "openError"
  /\ connClosed
  /\ ~strmClosed
  /\ \A t \in Tasks : task[t] = NotStarted

\* C18: once the dial has succeeded, server handleTCP and handleUDP return
\* nil whatever errors the two copy directions produced; they return a
\* non-nil error only when the dial fails, and then no copy task was started.
C18_CopyErrorsStayInStream ==
  (handler \in {"handleTCP", "handleUDP"} /\ hpc = "returned") =>
    /\ hret = "error" <=> herr = "openError"
    /\ hret = "error" => \A t \in Tasks : task[t] = NotStarted
    /\ hret = "nil" => \A t \in Tasks : task[t].pc = "done"

\* handleTCP returned nil although both copy directions failed and it
\* recorded the first of the two errors.
C18_Witness ==
  /\ handler = "handleTCP"
  /\ hpc = "returned"
  /\ hret = "nil"
  /\ herr = "ioError"
  /\ \A t \in Tasks : task[t].pc = "done" /\ task[t].err # "nil"

\* C24: in the client TCP forwarder nothing read from the local connection
\* is in the tunnel stream while the stream acquisition has not returned or
\* after it has failed, and whatever the stream holds begins with the PTCP
\* frame, every copied chunk coming after it.
C24_FrameBeforeData ==
  handler = "handleTCPConn" =>
    /\ (hpc = "start" \/ hret = "error") => strmOut = <<>>
    /\ strmOut # <<>> =>
         /\ strmOut[1] = "PTCP"
         /\ \A i \in 2..Len(strmOut) : strmOut[i] = "data"

\* The forwarder has copied two chunks behind the frame.
C24_Witness ==
  /\ handler = "handleTCPConn"
  /\ task[2].pc = "copy"
  /\ strmOut = <<"PTCP", "data", "data">>

\* C29: a copy goroutine that is about to report its result finds room in
\* the result channel, so its send does not wait for the handler; a handler
\* that returns after the copies has received two results and left none in
\* the channel; and once the handler has returned no copy goroutine is
\* running or waiting.
C29_ResultChannelNeverBlocks ==
  /\ \A t \in Tasks : task[t].pc = "send" => ChanHasRoom(errChan)
  /\ Len(errChan) + drained = Cardinality({t \in Tasks : task[t].pc = "done"})
  /\ hpc \in {"returned", "finished"} =>
       /\ \A t \in Tasks : task[t].pc \in {"none", "done"}
       /\ hret = "nil" => (drained = 2 /\ errChan = <<>>)

\* Both copy goroutines have reported and ended while the handler has not
\* yet looked at the channel.
C29_Witness ==
  /\ hpc = "wait"
  /\ Len(errChan) = 2
  /\ \A t \in Tasks : task[t].pc = "done"

(***************************************************************************)
(* Properties of the control protocol.                                     *)
(***************************************************************************)
\* A frame that carries exactly the body of its type, within the limits.
WellFormed(p) ==
  \/ /\ p.Type \in {PPING, PPONG}
     /\ p.Addr = NoAddr
     /\ p.TCPF = <<>>
  \/ /\ p.Type = PTCPF
     /\ p.Addr = NoAddr
     /\ Len(p.TCPF) <= 64
  \/ /\ p.Type \in {PTCP, PUDP}
     /\ p.TCPF = <<>>
     /\ p.Addr # NoAddr
     /\ Len(p.Addr.host) > 0
     /\ p.Addr.port \in 0..65535
     /\ Len(AddrString(p.Addr)) <= 512

\* C9: for every well-formed frame, Read applied to the bytes Write produced
\* returns no error and a frame equal to the original in type, address and
\* flag list.
C9_ProtocolRoundtrip ==
  (ppc \in {"wire", "decoded"} /\ ~cut /\ WellFormed(frame)) =>
    /\ werr = "nil"
    /\ ppc = "decoded" =>
         /\ decoded.err = "nil"
         /\ decoded.Type = frame.Type
         /\ decoded.Addr = frame.Addr
         /\ decoded.TCPF = frame.TCPF

\* C9 witness: a dial frame whose address has exactly 512 bytes was read back.
C9_Witness ==
  /\ ppc = "decoded"
  /\ ~cut
  /\ frame.Type = PTCP
  /\ WellFormed(frame)
  /\ Len(AddrString(frame.Addr)) = 512
  /\ decoded.Addr = frame.Addr

\* The inputs that the decoder has to reject: an empty input, a first byte
\* other than 0x01..0x05, a dial frame with a declared length above 512, a
\* flag report with a count above 64, and an input shorter than its header
\* or its declared body.
MustReject(b) ==
  \/ Len(b) = 0
  \/ /\ Len(b) >= 1
     /\ \/ b[1] \notin 1..5
        \/ /\ b[1] \in {4, 5}
           /\ \/ Len(b) < 3
              \/ /\ Len(b) >= 3
                 /\ \/ b[2] * 256 + b[3] > 512
                    \/ Len(b) < 3 + b[2] * 256 + b[3]
        \/ /\ b[1] = 3
           /\ \/ Len(b) < 2
              \/ /\ Len(b) >= 2
                 /\ \/ b[2] > 64
                    \/ Len(b) < 2 + 2 * b[2]

\* C10: Read returns an error for every input that has to be rejected.
C10_DecodeFailsClosed ==
  (ppc = "decoded" /\ MustReject(wire)) => decoded.err \notin {"nil", "none"}

\* C10 witness: a dial frame that declares 513 address bytes, all of them
\* present, was rejected.
C10_Witness ==
  /\ ppc = "decoded"
  /\ Len(wire) >= 3
  /\ wire[1] \in {4, 5}
  /\ wire[2] * 256 + wire[3] > 512
  /\ Len(wire) = 3 + wire[2] * 256 + wire[3]
  /\ decoded.err = "address too long"

\* C10 witness of the truncation case: a flag report cut inside its entries.
C10_WitnessTruncated ==
  /\ ppc = "decoded"
  /\ cut
  /\ Len(wire) >= 2
  /\ wire[1] = 3
  /\ wire[2] <= 64
  /\ Len(wire) < 2 + 2 * wire[2]
  /\ decoded.err = "EOF"

\* The frames whose written bytes Read takes: a known type, and for a dial
\* frame an address string of at most 512 bytes, for a flag report a count
\* byte of at most 64.
Readable(p) ==
  \/ p.Type \in {PPING, PPONG}
  \/ p.Type = PTCPF /\ Len(p.TCPF) % 256 <= MaxTCPFCount
  \/ p.Type \in {PTCP, PUDP} /\ Len(AddrString(p.Addr)) <= MaxAddrLen

\* C30 as stated: whatever frame Write has written without an error, Read
\* of the written bytes returns no error.
C30_WriteAlwaysReadable ==
  (ppc = "decoded" /\ ~cut /\ werr = "nil") => decoded.err = "nil"

\* C30: Read of the bytes a successful Write produced returns no error
\* exactly for the frames with a known type, an address string of at most
\* 512 bytes and a flag count byte of at most 64.
C30_WriteReadableFrames ==
  (ppc = "decoded" /\ ~cut /\ werr = "nil") =>
    (decoded.err = "nil" <=> Readable(frame))

\* A flag report with exactly 64 entries was written and read.
C30_Witness ==
  /\ ppc = "decoded"
  /\ ~cut
  /\ werr = "nil"
  /\ frame.Type = PTCPF
  /\ Len(frame.TCPF) = MaxTCPFCount
  /\ decoded.err = "nil"
  /\ Len(decoded.TCPF) = MaxTCPFCount

\* A flag report with 256 entries was written with a count byte of 0, and
\* read as a report without entries.
C30_WitnessWrapped ==
  /\ ppc = "decoded"
  /\ ~cut
  /\ werr = "nil"
  /\ Len(frame.TCPF) = 256
  /\ decoded.err = "nil"
  /\ decoded.TCPF = <<>>

(***************************************************************************)
(* Properties of the TCP flag word.                                        *)
(***************************************************************************)
\* The documented bit positions 0..8.
FlagAt == <<"FIN", "SYN", "RST", "PSH", "ACK", "URG", "ECE", "CWR", "NS">>

\* Bit k of the 16-bit word x is set.
WordBit(x, k) == (x \div (2 ^ k)) % 2 = 1

\* C11: encodeTCPF sets exactly the bits 0:FIN 1:SYN 2:RST 3:PSH 4:ACK 5:URG
\* 6:ECE 7:CWR 8:NS of the flags that are set and leaves bits 9..15 clear;
\* decodeTCPF reads the same positions and ignores bits 9..15, so a flag set
\* survives encode and decode and decodeTCPF(x) = decodeTCPF(x mod 512).
C11_FlagBitLayout ==
  /\ tfpc \in {"encoded", "decoded"} =>
       \A k \in 0..15 :
         WordBit(flagWord, k) <=> (IF k <= 8 THEN tcpfIn[FlagAt[k + 1]] ELSE FALSE)
  /\ tfpc \in {"decoded", "read"} =>
       /\ \A k \in 0..8 : tcpfOut[FlagAt[k + 1]] <=> WordBit(flagWord, k)
       /\ tcpfOut = decodeTCPF(flagWord % 512)
  /\ tfpc = "decoded" => tcpfOut = tcpfIn

\* A flag set with NS and FIN but not SYN has been encoded and decoded.
C11_Witness ==
  /\ tfpc = "decoded"
  /\ tcpfIn.NS /\ tcpfIn.FIN /\ ~tcpfIn.SYN
  /\ flagWord = 257

\* A word with bits above 8 set has been decoded.
C11_WitnessHighBits ==
  /\ tfpc = "read"
  /\ flagWord = 65024 + 16
  /\ tcpfOut.ACK /\ ~tcpfOut.NS

(***************************************************************************)
(* Properties of the payload padding.                                      *)
(***************************************************************************)
\* C12: removing the padding from a padded payload gives the payload back,
\* for every payload of at most 65535 bytes and every PadMax in 1..512,
\* whatever number of padding bytes was drawn.
C12_PaddingRoundtrip ==
  (padpc = "unwrapped" /\ Len(payload) <= 65535 /\ padMax \in 1..512) =>
    /\ unwrapped.kind = "data"
    /\ unwrapped.data = payload

\* A payload of 1350 bytes came back from under 512 bytes of padding.
C12_Witness ==
  /\ padpc = "unwrapped"
  /\ Len(payload) = 1350
  /\ padMax = 512
  /\ Len(datagram) = 2 + 1350 + 512
  /\ unwrapped.data = payload

\* An empty payload came back from under some padding.
C12_WitnessEmpty ==
  /\ padpc = "unwrapped"
  /\ Len(payload) = 0
  /\ Len(datagram) > 2
  /\ unwrapped.data = <<>>

\* The big-endian length in b[0..2].
DeclaredLen(b) == b[1] * 256 + b[2]

\* C13: UnwrapPadding returns none whenever its input has fewer than 2 bytes
\* or declares more bytes than follow the prefix; otherwise it returns
\* exactly the declared number of bytes that follow the prefix.
C13_PaddingRejectsTruncation ==
  padpc \in {"unwrapped", "checked"} =>
    IF Len(datagram) < 2
    THEN unwrapped.kind = "nil"
    ELSE IF DeclaredLen(datagram) > Len(datagram) - 2
    THEN unwrapped.kind = "nil"
    ELSE /\ unwrapped.kind = "data"
         /\ Len(unwrapped.data) = DeclaredLen(datagram)
         /\ \A i \in 1..DeclaredLen(datagram) : unwrapped.data[i] = datagram[2 + i]

\* A padded datagram lost its last payload byte on the way and is dropped.
C13_Witness ==
  /\ padpc = "checked"
  /\ Len(payload) = 256
  /\ Len(datagram) = 2 + 255
  /\ unwrapped.kind = "nil"

\* A datagram declaring exactly the bytes it carries is accepted.
C13_WitnessExact ==
  /\ padpc = "checked"
  /\ datagram = <<0, 2, 255, 1>>
  /\ unwrapped = [kind |-> "data", data |-> <<255, 1>>]

\* C32: UnwrapPadding never hands its input on unchanged: it returns none or
\* a slice at least 2 bytes shorter than the datagram it was given, so what
\* a receiver with padding enabled passes to the reliable-UDP layer is never
\* the datagram a sender without padding put on the wire.
C32_NeverPassesThrough ==
  padpc \in {"unwrapped", "checked", "mismatch"} =>
    /\ unwrapped.kind \in {"nil", "data"}
    /\ unwrapped.kind = "data" =>
         /\ Len(unwrapped.data) <= Len(datagram) - 2
         /\ unwrapped.data # datagram
    /\ (padpc = "mismatch" /\ unwrapped.kind = "data") =>
         /\ datagram = payload
         /\ unwrapped.data # payload

\* A sender without padding emitted 1350 bytes; the receiver read their
\* first two bytes as a length of 2577 and dropped the datagram.
C32_Witness ==
  /\ padpc = "mismatch"
  /\ Len(payload) = 1350
  /\ datagram = payload
  /\ Uint16(datagram[1], datagram[2]) = 2577
  /\ unwrapped = NilSlice

\* Four received bytes declaring one were cut down to that one byte.
C32_WitnessShorter ==
  /\ padpc = "checked"
  /\ datagram = <<0, 1, 2, 255>>
  /\ unwrapped = [kind |-> "data", data |-> <<2>>]

(***************************************************************************)
(* Properties of the receive path.                                         *)
(***************************************************************************)
\* The captured part of a frame laid out as l has a complete Ethernet
\* header with at most one 802.1Q tag, EtherType IPv4 or IPv6, an IP header
\* of at least 20 bytes (IPv6: 40) and a TCP header of at least 20 bytes,
\* both fully inside the captured bytes.
ValidHeaders(l) ==
  /\ l.vlans <= 1
  /\ l.ether \in {"ipv4", "ipv6"}
  /\ l.ether = "ipv4" => (l.ihl * 4 >= 20 /\ l.cut >= IPStart(l) + l.ihl * 4)
  /\ l.ether = "ipv6" => l.cut >= IPStart(l) + 40
  /\ l.doff * 4 >= 20
  /\ l.cut >= TCPStart(l) + l.doff * 4

\* The IP address a returned net.UDPAddr shows.
AddrIP(a) == IF a.IP = "ipv4Buf" THEN ipv4Buf ELSE ipv6Buf

\* C14: Read returns data only for a frame whose Ethernet, IP and TCP
\* headers pass validation; the data are exactly the bytes after the TCP
\* header and the address is the frame's source IP and TCP source port.
C14_OnlyValidatedFrames ==
  (rpc = "returned" /\ rret.data.kind # "nil") =>
    /\ captured.err = "nil"
    /\ ValidHeaders(layout)
    /\ rret.data.data =
         SubSeq(captured.data, PayloadStart(layout) + 1, Len(captured.data))
    /\ rret.addr # NilAddr
    /\ rret.addr.Port = SrcPort(layout.src)
    /\ AddrIP(rret.addr) =
         (IF layout.ether = "ipv4" THEN SrcIPv4(layout.src) ELSE SrcIPv6(layout.src))

\* A tagged IPv4 frame with IP and TCP options gave its three payload bytes.
C14_Witness ==
  /\ rpc = "returned"
  /\ layout.vlans = 1 /\ layout.ether = "ipv4" /\ layout.ihl = 6 /\ layout.doff = 15
  /\ rret.data.data = <<201, 202, 203>>
  /\ rret.addr = [IP |-> "ipv4Buf", Port |-> 50000]
  /\ ipv4Buf = <<192, 168, 1, 2>>

\* C15: Read returns an error only when the capture read fails; every
\* captured frame that is malformed, too short, of another EtherType or
\* without TCP payload gives nil data, nil address and nil error.
C15_MalformedIsNoData ==
  rpc = "returned" =>
    /\ rret.err # "nil" <=> captured.err # "nil"
    /\ (captured.err = "nil"
          /\ ~(ValidHeaders(layout) /\ layout.cut > PayloadStart(layout))) =>
         /\ rret.data.kind = "nil"
         /\ rret.addr = NilAddr
         /\ rret.err = "nil"

\* A whole frame whose IPv4 header states 16 bytes was ignored.
C15_Witness ==
  /\ rpc = "returned"
  /\ layout.ether = "ipv4" /\ layout.ihl = 4 /\ layout.plen = 3
  /\ layout.cut = Len(WholeFrame(layout))
  /\ rret.data.kind = "nil" /\ rret.addr = NilAddr /\ rret.err = "nil"

\* The capture read failed and Read returned its error.
C15_WitnessError ==
  /\ rpc = "returned"
  /\ captured.err = "captureError"
  /\ rret.err = "captureError"

\* C31: Read never indexes the captured frame at or beyond its length:
\* whatever the frame's length, EtherType, 802.1Q tags, IHL and TCP data
\* offset, no index or slice expression of Read fails the bounds check, and
\* the data it returns end where the captured bytes end.
C31_ReadStaysInFrame ==
  rpc = "returned" =>
    /\ rret.err # "panic"
    /\ rret.data.kind = "data" =>
         /\ Len(rret.data.data) < Len(captured.data)
         /\ rret.data.data =
              SubSeq(captured.data,
                     Len(captured.data) - Len(rret.data.data) + 1,
                     Len(captured.data))

\* A tagged IPv4 frame whose TCP header states 60 bytes was captured up to
\* the 20th byte of that header: the source address was copied and Read
\* returned no data.
C31_Witness ==
  /\ rpc = "returned"
  /\ layout.vlans = 1 /\ layout.ether = "ipv4" /\ layout.ihl = 15 /\ layout.doff = 15
  /\ layout.cut = TCPStart(layout) + 20
  /\ Len(captured.data) = 98
  /\ ipv4Buf = SrcIPv4(layout.src)
  /\ rret = NoData

\* A frame cut inside its IPv4 header, which states 60 bytes, was ignored
\* before the source address was read.
C31_WitnessShortIP ==
  /\ rpc = "returned"
  /\ layout.ether = "ipv4" /\ layout.ihl = 15 /\ layout.vlans = 0
  /\ layout.cut = IPStart(layout) + 20
  /\ ipv4Buf = ZeroIPv4
  /\ rret = NoData

(***************************************************************************)
(* Properties of the decoy cutoff.                                         *)
(***************************************************************************)
\* C16: with fake injection enabled, the calls of shouldSendFake for one
\* destination, taken in the order of their atomic increments, return true
\* for exactly the first FakeCutoff and false for every later one, also when
\* several senders call concurrently; with fake injection disabled every
\* call returns false and nothing is counted.
C16_FakeCutoffPerDestination ==
  /\ dpiCfg.FakeEnabled =>
       \A d \in Dests : \A e \in fakeLog[d].results :
         e[2] <=> (e[1] <= dpiCfg.FakeCutoff)
  /\ dpiCfg.FakeEnabled =>
       \A d \in Dests :
         Cardinality({e \in fakeLog[d].results : e[2]}) <= dpiCfg.FakeCutoff
  /\ ~dpiCfg.FakeEnabled =>
       /\ \A d \in Dests : \A e \in fakeLog[d].results : ~e[2]
       /\ \A d \in Dests : packetCount[d] = 0
       /\ counters = <<>>

\* Two senders are inside shouldSendFake for the same destination at once,
\* both past their increment; with FakeCutoff = 1 one counted 1, the other 2.
C16_Witness ==
  /\ dpiCfg = [FakeEnabled |-> TRUE, FakeCutoff |-> 1]
  /\ \E s, t \in FakeSenders :
       /\ s # t
       /\ sender[s].dst = sender[t].dst
       /\ sender[s].pc = "return" /\ sender[s].count = 1
       /\ sender[t].pc = "return" /\ sender[t].count = 2

(***************************************************************************)
(* Properties of the server's shutdown.                                    *)
(***************************************************************************)
\* C19: after the root scope is cancelled the listener is closed and the
\* accept loop exits, and Server.Start returns only after the accept loop
\* and every session goroutine it started have finished.
C19_GracefulShutdown ==
  /\ [](spc = "returned" =>
          /\ lpc \in {"none", "exit"}
          /\ \A i \in Sessions : session[i] \in {"none", "done"})
  /\ (rootDone /\ lpc # "none") ~> (listenerClosed /\ lpc = "exit")

\* A signal cancelled the root scope: the listener is closed and the accept
\* loop has exited while Start still waits for a running session.
C19_Witness ==
  /\ spc = "wait"
  /\ sig = "received"
  /\ rootDone
  /\ listenerClosed
  /\ lpc = "exit"
  /\ closerpc = "done"
  /\ \E i \in Sessions : session[i] = "running"

\* Start has returned nil after the accept loop and two sessions finished.
C19_WitnessReturned ==
  /\ spc = "returned"
  /\ sret = "nil"
  /\ lpc = "exit"
  /\ \A i \in Sessions : session[i] = "done"

(***************************************************************************)
(* Properties of the transport profile.                                    *)
(***************************************************************************)
\* C20 as stated: for every configured mode, manual included, aplConf
\* applies nocongestion = 1.
C20_NoCongestionAlways ==
  kpc = "applied" => applied.noCongestion = 1

\* C20, amended: for each of the six preset modes aplConf applies
\* nocongestion = 1; in manual mode it applies the configured NoCongestion.
C20_NoCongestionPresets ==
  kpc = "applied" =>
    /\ kcfg.Mode # "manual" => applied.noCongestion = 1
    /\ kcfg.Mode = "manual" => applied.noCongestion = kcfg.NoCongestion

\* The normal profile was applied with nocongestion = 1 although the
\* configuration's own NoCongestion field is 0.
C20_Witness ==
  /\ kpc = "applied"
  /\ kcfg.Mode = "normal"
  /\ kcfg.NoCongestion = 0
  /\ applied.noCongestion = 1

\* C22: the ticker closes a slot's session only with the ping failure that
\* brings the slot's consecutive failures to the threshold or beyond, and
\* replaces it only after that; a failure that leaves the count below the
\* threshold adds one to fails and leaves the session and the set of closed
\* sessions as they were.
C22_NoReplacementBelowThreshold ==
  [][\A i \in Slots :
       /\ (Items[i].conn \in closed' /\ Items[i].conn \notin closed)
            => streak'[i] >= Threshold(variant)
       /\ Items'[i].conn # Items[i].conn => streak[i] >= Threshold(variant)
       /\ (streak'[i] = streak[i] + 1 /\ streak'[i] < Threshold(variant))
            => /\ Items'[i].conn = Items[i].conn
               /\ Items'[i].fails = Items[i].fails + 1
               /\ closed' = closed]_vars

\* A slot has failed its ping twice in a row, one short of the threshold of
\* the 30 s sweep: its session is the one it had, and is not closed.
C22_Witness ==
  /\ variant = "sweep30"
  /\ ev.kind = "pingFail"
  /\ streak[ev.slot] = maxHealthCheckFailuresSweep30 - 1
  /\ Items[ev.slot].fails = maxHealthCheckFailuresSweep30 - 1
  /\ Items[ev.slot].conn = ev.conn
  /\ Items[ev.slot].conn \notin closed

\* The slot holds a session the ticker has closed and not replaced.
Degraded(i) == Items[i].conn \in closed

\* C23: after a failed factory call the slot stays degraded, with fails at or
\* above the threshold; a later failing check of a degraded slot goes on to
\* the factory again, and comes unless the client shuts down; a factory call
\* that succeeds leaves a new, open session with fails = 0 in the slot.
C23_DegradedSlotRetried ==
  /\ [](\A i \in Slots : Degraded(i) => Items[i].fails >= Threshold(variant))
  /\ [][(tpc = "check" /\ Degraded(ti) /\ tpc' # "check")
          => (tpc' = "reconnect" /\ ti' = ti)]_vars
  /\ [][(tpc = "reconnect" /\ created' = created + 1)
          => /\ Items'[ti].conn # Items[ti].conn
             /\ Items'[ti].conn \notin closed'
             /\ Items'[ti].fails = 0]_vars
  /\ \A i \in Slots :
       (ev.kind = "reconnectFail" /\ ev.slot = i)
         ~> ((tpc = "reconnect" /\ ti = i) \/ tpc = "exit")

\* A slot whose factory failed has been checked again, has failed again and
\* is in front of its factory for the second time.
C23_Witness ==
  /\ tpc = "reconnect"
  /\ ev.kind = "close"
  /\ ev.conn \in closed
  /\ Items[ti].fails > Threshold(variant)

\* The second factory call succeeded: the slot holds a new session.
C23_WitnessRecovered ==
  /\ ev.kind = "reconnectOk"
  /\ ev.fails > Threshold(variant)
  /\ Items[ev.slot].fails = 0
  /\ Items[ev.slot].conn \notin closed
  /\ Items[ev.slot].conn # ev.conn

\* C25: in the round-robin ticker the slots selected by any Len(Items)
\* consecutive ticks are all the slots, each once, and the tick that finds
\* its slot empty leaves idx at the slot after it.
C25_RoundRobinCoverage ==
  /\ [](variant = "roundrobin" /\ Len(picked) = Len(Items)
          => /\ Range(picked) = DOMAIN Items
             /\ \A a, b \in DOMAIN picked : picked[a] = picked[b] => a = b)
  /\ [][(variant = "roundrobin" /\ ev'.kind = "skip" /\ ev' # ev)
          => /\ picked'[Len(picked')] = ev'.slot
             /\ idx' = ev'.slot % Len(Items)]_vars

\* Two ticks in a row with an empty first slot: the first tick skipped it,
\* the second selected the slot after it.
C25_Witness ==
  /\ variant = "roundrobin"
  /\ Items[1].conn = None
  /\ picked = <<1, 2>>
  /\ tpc = "check"
  /\ ti = 2

\* The accept loop of the server or of the client forwarder is running.
InLoop == lpc \in {"select", "accept", "fwdAccept", "fwdSelect"}

\* C26: an accept loop is left only when the root scope is cancelled; after
\* an Accept that failed the loop is at its select, and from there, the
\* scope not being cancelled, it goes to Accept again.
C26_AcceptLoopSurvivesErrors ==
  /\ [](lpc = "exit" => rootDone)
  /\ [][(InLoop /\ lpc' # lpc /\ ~rootDone) => InLoop']_vars
  /\ [][(lpc \in {"select", "fwdSelect"} /\ ~rootDone /\ lpc' # lpc)
          => lpc' \in {"accept", "fwdAccept"}]_vars

\* The forwarder's Accept has failed on the open listener with the scope
\* alive, and a connection accepted before it is still served.
C26_Witness ==
  /\ lpc = "fwdSelect"
  /\ ~rootDone
  /\ ~listenerClosed
  /\ \E i \in Sessions : session[i] = "running"

\* C27: a newConn that returns a session never returns one the ticker has
\* already closed.
C27_DispatchNeverDead ==
  [][\A p \in Callers :
       (call[p].pc = "try" /\ call'[p].pc = "open")
         => call'[p].conn \notin closed]_vars

\* C28 as stated: on a pool with one bad slot every newStrm call returns a
\* stream, whatever the other calls do.
C28_OneBadSlotAlwaysServed ==
  \A p \in DOMAIN call : call[p].pc = "done" => call[p].ret = "strm"

\* C28: on a pool with one bad slot a newStrm call between whose attempts no
\* other call has advanced the round-robin counter returns a stream, by its
\* second attempt at the latest.
C28_OneBadSlotServedAlone ==
  \A p \in DOMAIN call :
    (call[p].pc = "done" /\ ~call[p].mixed) =>
      /\ call[p].ret = "strm"
      /\ call[p].tries <= 2
      /\ call[p].strm \notin closed

\* A call met the bad slot first and got its stream from the next slot,
\* while another call was inside newStrm.
C28_Witness ==
  \E p, q \in DOMAIN call :
    /\ p # q
    /\ call[p].pc = "done"
    /\ ~call[p].mixed
    /\ call[p].ret = "strm"
    /\ call[p].tries = 2
    /\ call[q].pc = "open"

(***************************************************************************)
(* Properties of license enforcement.                                      *)
(***************************************************************************)
\* The configuration names a server and a key.
Configured == Base(licCfg) # <<>> /\ Key(licCfg) # <<>>

\* The cache file held the binding of the configuration when Enforce began.
CacheHit ==
  /\ Configured
  /\ cacheBefore.kind = "entry"
  /\ cacheBefore.Binding = Binding(licCfg)

\* C21: Enforce returns nil exactly when the cache file held the binding of
\* the current (url, key, server_id), and then no activation request was
\* sent, or the activation server answered HTTP 200 with ok = true; every
\* other outcome is an error and leaves the cache file as it was.
C21_EnforceOutcome ==
  epc = "returned" =>
    /\ eret = "nil" <=> (CacheHit \/ (answer.status = StatusOK /\ answer.ok))
    /\ CacheHit => posts = 0
    /\ eret # "nil" => cacheFile = cacheBefore

\* A second start whose configuration differs only in white space and
\* trailing slashes finds the binding the first start wrote, and succeeds
\* without a request.
C21_Witness ==
  /\ epc = "returned"
  /\ starts = 2
  /\ CacheHit
  /\ licCfg.URL = <<Space, 117, Slash, Slash, Space>>
  /\ eret = "nil"
  /\ posts = 0

\* The server answered 200 with ok = false: an error, and no cache.
C21_WitnessDenied ==
  /\ epc = "returned"
  /\ answer = [status |-> StatusOK, ok |-> FALSE]
  /\ eret = "license denied"
  /\ cacheFile = NoFile

=============================================================================
